---- MODULE Spec2Model ----
(***************************************************************************)
(* The message-dispatch engine of the language server framework:           *)
(*   - the JSON-RPC message model            (language-server/src/jsonrpc.rs) *)
(*   - the outbound client and its pending table (language-server/src/client.rs) *)
(*   - the dispatcher: input loop, request tasks, writer task              *)
(*                                            (language-server/src/lib.rs) *)
(*                                                                         *)
(* Processes.  Actor 0 is the task that runs LspService::listen (the input *)
(* loop); actor t in 1..MaxFrames is the task that tokio::spawn creates    *)
(* for the Request read as frame number t; the writer task is a process of *)
(* its own.  Every await point of the code at which another task can run   *)
(* in between is a separate action.                                        *)
(*                                                                         *)
(* The outbound channel is futures::channel::mpsc::channel(0).  Every send *)
(* in the code goes through a fresh clone of the Sender, and each Sender   *)
(* owns one guaranteed slot: start_send always succeeds while the Receiver *)
(* is alive, and the flush half of SinkExt::send completes once the        *)
(* Receiver has taken the message (or has been dropped).                   *)
(***************************************************************************)
EXTENDS Integers, Sequences, FiniteSets, TLC

\* Number of frames the peer writes before the input ends.
MaxFrames == 2
\* Number of calls handlers make on the client handle, over the connection.
MaxClientCalls == 2
\* Number of Responses the peer writes in an exchange with the client (ClientSpec).
MaxResponses == 2

Tasks == 1..MaxFrames
Actors == 0..MaxFrames

(***************************************************************************)
(* Option<T>: None is the empty tuple, Some(x) the one-element tuple.      *)
(***************************************************************************)
None == <<>>
Some(x) == <<x>>
IsSome(o) == Len(o) = 1
unwrap_or(o, d) == IF Len(o) = 1 THEN o[1] ELSE d

(***************************************************************************)
(* jsonrpc.rs: Id, ErrorCode, Error.                                       *)
(* A JSON value (params, result) is a string: "null" is JSON null, "{}" an *)
(* empty object, "v" some other value.                                     *)
(***************************************************************************)
PROTOCOL_VERSION == "2.0"
JsonNull == "null"

IdNumber(n) == [tag |-> "Number", num |-> n, str |-> ""]
IdString(s) == [tag |-> "String", num |-> 0, str |-> s]
\* The JSON null in the place of an id on the wire.
IdJsonNull == [tag |-> "Null", num |-> 0, str |-> ""]

ParseError == -32700
InvalidRequest == -32600
MethodNotFound == -32601
InvalidParams == -32602
InternalError == -32603

parse_error == [code |-> ParseError, message |-> "Could not parse the input", data |-> None]
method_not_found_error == [code |-> MethodNotFound, message |-> "Method not found", data |-> None]
deserialize_error ==
    [code |-> InvalidParams, message |-> "Could not deserialize parameter object", data |-> None]
internal_error(message) == [code |-> InternalError, message |-> message, data |-> None]

(***************************************************************************)
(* jsonrpc.rs: Request, Response, Notification, Message.  One record shape *)
(* for the three variants; the fields a variant does not have are "" or    *)
(* None.                                                                   *)
(***************************************************************************)
RequestNew(method, params, id) ==
    [kind |-> "Request", jsonrpc |-> PROTOCOL_VERSION, method |-> method, params |-> params,
     id |-> Some(id), result |-> None, error |-> None]
NotificationNew(method, params) ==
    [kind |-> "Notification", jsonrpc |-> PROTOCOL_VERSION, method |-> method, params |-> params,
     id |-> None, result |-> None, error |-> None]
ResponseResult(result, id) ==
    [kind |-> "Response", jsonrpc |-> PROTOCOL_VERSION, method |-> "", params |-> "",
     id |-> Some(id), result |-> Some(result), error |-> None]
ResponseError(error, id) ==
    [kind |-> "Response", jsonrpc |-> PROTOCOL_VERSION, method |-> "", params |-> "",
     id |-> id, result |-> None, error |-> Some(error)]
\* No message: an actor that handles nothing.
NoMsg ==
    [kind |-> "None", jsonrpc |-> "", method |-> "", params |-> "",
     id |-> None, result |-> None, error |-> None]
\* The Err(Error::parse_error()) of handle_incoming's match.
DecodeErr ==
    [kind |-> "Err", jsonrpc |-> "", method |-> "", params |-> "",
     id |-> None, result |-> None, error |-> Some(parse_error)]

(***************************************************************************)
(* The body of a frame: either text that is no JSON object, or a JSON      *)
(* object given by the fields it has (None: the field is absent).          *)
(***************************************************************************)
Garbage ==
    [json |-> FALSE, jsonrpc |-> None, method |-> None, params |-> None,
     id |-> None, result |-> None, error |-> None]
Obj(jsonrpc, method, params, id, result, error) ==
    [json |-> TRUE, jsonrpc |-> jsonrpc, method |-> method, params |-> params,
     id |-> id, result |-> result, error |-> error]

(***************************************************************************)
(* serde_json::from_str::<Message>: Message is #[serde(untagged)], so the  *)
(* variants are tried in declaration order, Request, Notification,         *)
(* Response, and the first that deserializes wins.  Unknown fields are     *)
(* ignored; a field of type String, Value or Id must be present; a field   *)
(* of type Option is None when absent or null; result keeps null as        *)
(* Some(null) (deserialize_some).  The value of jsonrpc is a String and is *)
(* compared with nothing.                                                  *)
(***************************************************************************)
\* The error field, an Option<Error>: absent is None; data is an Option<Value>
\* without deserialize_some, so a data that is null is None, as an absent one.
error_from_json(e) ==
    IF e = None THEN None
    ELSE Some([e[1] EXCEPT !.data = IF @ = Some(JsonNull) THEN None ELSE @])

AsRequest(f) ==
    /\ IsSome(f.jsonrpc) /\ IsSome(f.method) /\ IsSome(f.params)
    /\ IsSome(f.id) /\ f.id[1].tag # "Null"
AsNotification(f) == IsSome(f.jsonrpc) /\ IsSome(f.method) /\ IsSome(f.params)
AsResponse(f) == IsSome(f.jsonrpc)

from_str(f) ==
    IF ~f.json THEN DecodeErr
    ELSE IF AsRequest(f) THEN
        [kind |-> "Request", jsonrpc |-> f.jsonrpc[1], method |-> f.method[1],
         params |-> f.params[1], id |-> f.id, result |-> None, error |-> None]
    ELSE IF AsNotification(f) THEN
        [kind |-> "Notification", jsonrpc |-> f.jsonrpc[1], method |-> f.method[1],
         params |-> f.params[1], id |-> None, result |-> None, error |-> None]
    ELSE IF AsResponse(f) THEN
        [kind |-> "Response", jsonrpc |-> f.jsonrpc[1], method |-> "", params |-> "",
         id |-> IF IsSome(f.id) /\ f.id[1].tag # "Null" THEN f.id ELSE None,
         result |-> f.result, error |-> error_from_json(f.error)]
    ELSE DecodeErr

(***************************************************************************)
(* The frames the peer may write.                                          *)
(***************************************************************************)
V2 == Some(PROTOCOL_VERSION)
PeerError == internal_error("bar")
Frames ==
    { Garbage,
      \* requests
      Obj(V2, Some("initialize"), Some("{}"), Some(IdNumber(0)), None, None),
      Obj(V2, Some("initialize"), Some(JsonNull), Some(IdNumber(1)), None, None),
      Obj(V2, Some("foo"), Some("{}"), Some(IdNumber(1)), None, None),
      \* notifications
      Obj(V2, Some("initialized"), Some("{}"), None, None, None),
      Obj(V2, Some("initialized"), Some(JsonNull), None, None, None),
      Obj(V2, Some("foo"), Some("{}"), None, None, None),
      \* responses
      Obj(V2, None, None, Some(IdNumber(0)), Some("v"), None),
      Obj(V2, None, None, Some(IdNumber(0)), None, Some(PeerError)),
      Obj(V2, None, None, Some(IdNumber(0)), None, None),
      Obj(V2, None, None, Some(IdNumber(1)), Some(JsonNull), None),
      Obj(V2, None, None, Some(IdString("0")), Some(JsonNull), None),
      Obj(V2, None, None, Some(IdJsonNull), None, Some(PeerError)) }

(***************************************************************************)
(* The method tables of handle_incoming (two arms of each stand for all).  *)
(* from_value(params): the parameter type of initialize and initialized is *)
(* a struct, which an object decodes into and null does not; that of       *)
(* shutdown and exit is (), which only null decodes into.                  *)
(***************************************************************************)
\* Mutant: one table of bound methods for requests and notifications alike.
BoundMethods == {"initialize", "shutdown", "initialized", "exit"}

RequestMethods == {"initialize", "shutdown"}
NotificationMethods == {"initialized", "exit"}
from_value_ok(method, params) ==
    IF method \in {"initialize", "initialized"} THEN params = "{}" ELSE params = JsonNull

(***************************************************************************)
(* Result<Value, Error>, the value a oneshot carries.                      *)
(***************************************************************************)
Ok(v) == [tag |-> "Ok", val |-> v, err |-> None]
Err(e) == [tag |-> "Err", val |-> "", err |-> Some(e)]

VARIABLES
    nread,          \* frames read from the input so far
    pc,             \* pc[a]: where actor a is
    why,            \* why[a]: the panic message of actor a, "" if it has not panicked
    handling,       \* handling[a]: the inbound message actor a is handling
    ncalls,         \* calls made on the client handle so far
    request_id,     \* Client.request_id
    issued,         \* the ids send_request obtained, in the order of the fetch_add
    senders_by_id,  \* Client.senders_by_id: entries [id, tx], tx the oneshot of actor tx
    oneshot,        \* oneshot[a]: the oneshot channel of actor a's send_request call
    outid,          \* outid[a]: request.id inside actor a's send_request call
    ret,            \* ret[a]: what actor a's last send_request call returned
    chan,           \* messages accepted on the outbound channel, not yet taken
    wpc,            \* the writer task: "recv", "write", "failed" or "closed"
    wcur,           \* the message the writer task is writing
    wire,           \* the frames written to the output
    original,       \* a Message value given to serde_json::to_string
    json,           \* the text of a message: None, or Some(body of a frame)
    decoded,        \* what serde_json::from_str::<Message> made of the text
    hook,           \* the hook of AggregateMiddleware that is running, "" if none
    index,          \* the position in self.middlewares its for loop is at
    awaiting,       \* TRUE while the hook of that middleware is being awaited
    subject,        \* the message behind the hook's &mut
    answered,       \* the &Request given to on_outgoing_response, else NoMsg
    calls           \* what the middlewares were given and left, in order

\* original, json and decoded are the locals of a conversion made on its own,
\* as in the tests of jsonrpc.rs; the dispatcher's steps leave them alone.
codec_vars == <<original, json, decoded>>

\* hook .. calls are the locals of one call of a hook of AggregateMiddleware
\* (middleware.rs) and its record; nothing in lib.rs or client.rs names a
\* middleware, so the dispatcher's steps leave them alone.
middleware_vars == <<hook, index, awaiting, subject, answered, calls>>

vars == <<nread, pc, why, handling, ncalls, request_id, issued, senders_by_id, oneshot,
          outid, ret, chan, wpc, wcur, wire, original, json, decoded,
          hook, index, awaiting, subject, answered, calls>>

NoOneshot == [st |-> "none", val |-> Ok("")]

Init ==
    /\ nread = 0
    /\ pc = [a \in Actors |-> IF a = 0 THEN "read" ELSE "unspawned"]
    /\ why = [a \in Actors |-> ""]
    /\ handling = [a \in Actors |-> NoMsg]
    /\ ncalls = 0
    /\ request_id = 0
    /\ issued = <<>>
    /\ senders_by_id = {}
    /\ oneshot = [a \in Actors |-> NoOneshot]
    /\ outid = [a \in Actors |-> IdNumber(0)]
    /\ ret = [a \in Actors |-> None]
    /\ chan = <<>>
    /\ wpc = "recv"
    /\ wcur = None
    /\ wire = <<>>
    /\ original = NoMsg
    /\ json = None
    /\ decoded = NoMsg
    /\ hook = ""
    /\ index = 1
    /\ awaiting = FALSE
    /\ subject = NoMsg
    /\ answered = NoMsg
    /\ calls = <<>>


(***************************************************************************)
(* Helpers shared by the actions.                                          *)
(***************************************************************************)
\* A message on the outbound channel, with where it comes from: the actor
\* that sent it, the frame that actor was handling and that frame's variant.
Entry(a, msg) ==
    [actor |-> a, frame |-> IF a = 0 THEN nread ELSE a, hkind |-> handling[a].kind,
     msg |-> msg]

\* A panic unwinds the actor's task.
Panic(a, message) ==
    /\ pc' = [pc EXCEPT ![a] = "panicked"]
    /\ why' = [why EXCEPT ![a] = message]

\* The writer task has ended and dropped output_rx: the channel is closed.
ReceiverGone == wpc \in {"failed", "closed"}

SendErrorMsg == "unwrap on Err: SendError"
CanceledMsg == "unwrap on Err: Canceled"

\* Mutant: the send does not look at the state of the channel.
SendUnchecked(a, msg, next) ==
    /\ chan' = Append(chan, Entry(a, msg))
    /\ pc' = [pc EXCEPT ![a] = next]
    /\ why' = why

\* output.send(msg).await.unwrap(), up to the point where the message is in
\* the channel: an error, hence a panic, when the Receiver is gone.
Send(a, msg, next) ==
    IF ReceiverGone
    THEN Panic(a, SendErrorMsg) /\ chan' = chan
    ELSE /\ chan' = Append(chan, Entry(a, msg))
         /\ pc' = [pc EXCEPT ![a] = next]
         /\ why' = why

\* Mutant: the input loop ends once the parse error response is sent.
FlushNextAbort(p) ==
    CASE p = "sn_flush" -> "handler"
      [] p = "sr_flush" -> "sr_await"
      [] p = "resp_flush" -> "done"
      [] p = "perr_flush" -> "done"

\* Where an actor goes on once its send has been flushed.
FlushNext(p) ==
    CASE p = "sn_flush" -> "handler"
      [] p = "sr_flush" -> "sr_await"
      [] p = "resp_flush" -> "done"
      [] p = "perr_flush" -> "read"
FlushPcs == {"sn_flush", "sr_flush", "resp_flush", "perr_flush"}

(***************************************************************************)
(* lib.rs, listen: the input loop.                                         *)
(***************************************************************************)
\* input.next().await yields Some(Ok(json)); handle_incoming decodes it.
Read ==
    /\ pc[0] = "read" /\ nread < MaxFrames
    /\ \E f \in Frames : handling' = [handling EXCEPT ![0] = from_str(f)]
    /\ nread' = nread + 1
    /\ pc' = [pc EXCEPT ![0] = "dispatch"]
    /\ UNCHANGED <<why, ncalls, request_id, issued, senders_by_id, oneshot, outid, ret,
                   chan, wpc, wcur, wire>>
    /\ UNCHANGED <<codec_vars, middleware_vars>>

\* input.next().await yields None (end of input) or Some(Err(_)) (a framing
\* error): the while let loop ends and listen returns.
ReadEnd ==
    /\ pc[0] = "read"
    /\ \E how \in {"eof", "framing_error"} : pc' = [pc EXCEPT ![0] = "done"]
    /\ UNCHANGED <<nread, why, handling, ncalls, request_id, issued, senders_by_id, oneshot,
                   outid, ret, chan, wpc, wcur, wire>>
    /\ UNCHANGED <<codec_vars, middleware_vars>>

\* Mutant: the request's future is awaited by the input loop instead of
\* being spawned; the loop does not read while it runs.
DispatchRequestInline ==
    /\ pc[0] = "dispatch" /\ handling[0].kind = "Request"
    /\ pc' = [pc EXCEPT ![0] = "join", ![nread] = "start"]
    /\ handling' = [handling EXCEPT ![0] = NoMsg, ![nread] = handling[0]]
    /\ UNCHANGED <<nread, why, ncalls, request_id, issued, senders_by_id, oneshot, outid,
                   ret, chan, wpc, wcur, wire>>
    /\ UNCHANGED <<codec_vars, middleware_vars>>

\* Ok(Message::Request(request)): tokio::spawn of the request's task.
DispatchRequest ==
    /\ pc[0] = "dispatch" /\ handling[0].kind = "Request"
    /\ pc' = [pc EXCEPT ![0] = "read", ![nread] = "start"]
    /\ handling' = [handling EXCEPT ![0] = NoMsg, ![nread] = handling[0]]
    /\ UNCHANGED <<nread, why, ncalls, request_id, issued, senders_by_id, oneshot, outid,
                   ret, chan, wpc, wcur, wire>>
    /\ UNCHANGED <<codec_vars, middleware_vars>>

\* Mutant: the notification's handler is spawned like a request's.
DispatchNotificationSpawned ==
    /\ pc[0] = "dispatch" /\ handling[0].kind = "Notification"
    /\ LET n == handling[0] IN
       IF n.method \notin NotificationMethods THEN
           /\ pc' = [pc EXCEPT ![0] = "read"]
           /\ handling' = [handling EXCEPT ![0] = NoMsg]
           /\ why' = why
       ELSE IF ~from_value_ok(n.method, n.params) THEN
           Panic(0, deserialize_error.message) /\ handling' = handling
       ELSE
           /\ pc' = [pc EXCEPT ![0] = "read", ![nread] = "handler"]
           /\ handling' = [handling EXCEPT ![0] = NoMsg, ![nread] = n]
           /\ why' = why
    /\ UNCHANGED <<nread, ncalls, request_id, issued, senders_by_id, oneshot, outid, ret,
                   chan, wpc, wcur, wire>>
    /\ UNCHANGED <<codec_vars, middleware_vars>>

\* Mutant: the notification arm is a copy of the request arm: an unbound
\* method and undecodable params are answered with an error Response.
DispatchNotificationLikeRequest ==
    /\ pc[0] = "dispatch" /\ handling[0].kind = "Notification"
    /\ LET n == handling[0] IN
       IF n.method \notin NotificationMethods THEN
           Send(0, ResponseError(method_not_found_error, None), "perr_flush")
           /\ handling' = handling
       ELSE IF ~from_value_ok(n.method, n.params) THEN
           Send(0, ResponseError(deserialize_error, None), "perr_flush")
           /\ handling' = handling
       ELSE
           /\ pc' = [pc EXCEPT ![0] = "handler"]
           /\ UNCHANGED <<handling, why, chan>>
    /\ UNCHANGED <<nread, ncalls, request_id, issued, senders_by_id, oneshot, outid, ret,
                   wpc, wcur, wire>>
    /\ UNCHANGED <<codec_vars, middleware_vars>>

\* Ok(Message::Notification(notification)): handle! on the input loop's own
\* task; handle_notification decodes the params (expect) and awaits the handler.
DispatchNotification ==
    /\ pc[0] = "dispatch" /\ handling[0].kind = "Notification"
    /\ LET n == handling[0] IN
       IF n.method \notin NotificationMethods THEN
           /\ pc' = [pc EXCEPT ![0] = "read"]
           /\ handling' = [handling EXCEPT ![0] = NoMsg]
           /\ why' = why
       ELSE IF ~from_value_ok(n.method, n.params) THEN
           Panic(0, deserialize_error.message) /\ handling' = handling
       ELSE
           /\ pc' = [pc EXCEPT ![0] = "handler"]
           /\ UNCHANGED <<handling, why>>
    /\ UNCHANGED <<nread, ncalls, request_id, issued, senders_by_id, oneshot, outid, ret,
                   chan, wpc, wcur, wire>>
    /\ UNCHANGED <<codec_vars, middleware_vars>>

\* Err(why): the parse error response, with id None.
DispatchParseError ==
    /\ pc[0] = "dispatch" /\ handling[0].kind = "Err"
    /\ Send(0, ResponseError(handling[0].error[1], None), "perr_flush")
    /\ UNCHANGED <<nread, handling, ncalls, request_id, issued, senders_by_id, oneshot,
                   outid, ret, wpc, wcur, wire>>
    /\ UNCHANGED <<codec_vars, middleware_vars>>

(***************************************************************************)
(* client.rs, Client::handle.                                              *)
(***************************************************************************)
\* Mutant: the error of the response is ignored.
HandleResultNoError(response) == Ok(unwrap_or(response.result, JsonNull))

HandleResult(response) ==
    IF IsSome(response.error) THEN Err(response.error[1])
    ELSE Ok(unwrap_or(response.result, JsonNull))

\* Mutant: a response without id is taken to answer the first request.
expect_id_or_default(response) ==
    IF IsSome(response.id) THEN response.id ELSE Some(IdNumber(0))

\* response.id.expect("Expected response with id"): None is the panic.
expect_id(response) == response.id

\* Mutant: the key is compared by its number alone.
remove_by_num(table, id) == {e \in table : e.id.num = id.num}

\* senders_by_id.remove(&id): the entry under the key, if there is one.
remove(table, id) == {e \in table : e.id = id}

\* Mutant: the entry is looked up and left in the table, and the sink takes a
\* value as long as the waiter has not collected one.
ClientHandleKeep(response) ==
    IF ~IsSome(expect_id(response)) THEN
        Panic(0, "Expected response with id") /\ UNCHANGED <<senders_by_id, oneshot>>
    ELSE
        LET id == expect_id(response)[1]
            found == remove(senders_by_id, id)
        IN  IF found = {} THEN
                Panic(0, "Unexpected response received")
                /\ UNCHANGED <<senders_by_id, oneshot>>
            ELSE
                LET result_tx == (CHOOSE e \in found : TRUE).tx IN
                /\ senders_by_id' = senders_by_id
                /\ IF oneshot[result_tx].st \in {"open", "sent"} THEN
                       /\ oneshot' = [oneshot EXCEPT ![result_tx] =
                                         [st |-> "sent", val |-> HandleResult(response)]]
                       /\ pc' = [pc EXCEPT ![0] = "read"]
                       /\ why' = why
                   ELSE
                       /\ oneshot' = oneshot
                       /\ Panic(0, "unwrap on Err: receiver dropped")

ClientHandle(response) ==
    IF ~IsSome(expect_id(response)) THEN
        Panic(0, "Expected response with id") /\ UNCHANGED <<senders_by_id, oneshot>>
    ELSE
        LET id == expect_id(response)[1]
            found == remove(senders_by_id, id)
        IN  IF found = {} THEN
                Panic(0, "Unexpected response received")
                /\ UNCHANGED <<senders_by_id, oneshot>>
            ELSE
                LET result_tx == (CHOOSE e \in found : TRUE).tx IN
                /\ senders_by_id' = senders_by_id \ found
                /\ IF oneshot[result_tx].st = "open" THEN
                       /\ oneshot' = [oneshot EXCEPT ![result_tx] =
                                         [st |-> "sent", val |-> HandleResult(response)]]
                       /\ pc' = [pc EXCEPT ![0] = "read"]
                       /\ why' = why
                   ELSE
                       \* the Receiver is gone: result_tx.send(..) is Err, unwrap panics
                       /\ oneshot' = oneshot
                       /\ Panic(0, "unwrap on Err: receiver dropped")

\* Mutant: the Response is handed to a task of its own and the input loop
\* goes on reading; handle has not run when the step is over.
DispatchResponseSpawned ==
    /\ pc[0] = "dispatch" /\ handling[0].kind = "Response"
    /\ pc' = [pc EXCEPT ![0] = "read"]
    /\ handling' = [handling EXCEPT ![0] = NoMsg]
    /\ UNCHANGED <<nread, why, ncalls, request_id, issued, senders_by_id, oneshot, outid, ret,
                   chan, wpc, wcur, wire>>
    /\ UNCHANGED <<codec_vars, middleware_vars>>

\* Mutant: inbound and outbound ids are one space, and a Response also
\* settles the inbound Request of its id.
DispatchResponseSharedIds ==
    /\ pc[0] = "dispatch" /\ handling[0].kind = "Response"
    /\ ClientHandle(handling[0])
    /\ handling' = [a \in Actors |->
                       IF a = 0 THEN (IF pc'[0] = "read" THEN NoMsg ELSE handling[0])
                       ELSE IF handling[a].kind = "Request" /\ handling[a].id = handling[0].id
                            THEN NoMsg ELSE handling[a]]
    /\ UNCHANGED <<nread, ncalls, request_id, issued, outid, ret, chan, wpc, wcur, wire>>
    /\ UNCHANGED <<codec_vars, middleware_vars>>

\* Ok(Message::Response(response)): client.handle(response).await, inline.
DispatchResponse ==
    /\ pc[0] = "dispatch" /\ handling[0].kind = "Response"
    /\ ClientHandle(handling[0])
    /\ handling' = [handling EXCEPT ![0] = IF pc'[0] = "read" THEN NoMsg ELSE handling[0]]
    /\ UNCHANGED <<nread, ncalls, request_id, issued, outid, ret, chan, wpc, wcur, wire>>
    /\ UNCHANGED <<codec_vars, middleware_vars>>


(***************************************************************************)
(* lib.rs, the task spawned for a Request: handle! and handle_request.     *)
(***************************************************************************)
\* What the host's handler may return: Ok(()) or Err(message).
HandlerOutcomes == {[ok |-> TRUE, val |-> JsonNull], [ok |-> FALSE, val |-> "boom"]}

\* Mutant: the error Response is built on top of a Response with a result.
handle_request_response_with_result(request, outcome) ==
    IF outcome.ok THEN ResponseResult(outcome.val, request.id[1])
    ELSE [ResponseResult(JsonNull, request.id[1]) EXCEPT
             !.error = Some(internal_error(outcome.val))]

\* handle_request, after the handler has returned.
handle_request_response(request, outcome) ==
    IF outcome.ok THEN ResponseResult(outcome.val, request.id[1])
    ELSE ResponseError(internal_error(outcome.val), request.id)

\* The handle_request that #[jsonrpc_server] generates: the handler's failure
\* is a jsonrpc Error, which ? passes on as it is.
HandlerErrors == {[code |-> InvalidRequest, message |-> "bad", data |-> None]}
generated_handle_request_response(request, error) == ResponseError(error, request.id)

\* Mutant: the default arm's response is sent before the method is matched,
\* and a bound method's handler runs all the same.
TaskStartFallthrough(t) ==
    /\ pc[t] = "start"
    /\ LET request == handling[t] IN
       IF request.method \notin RequestMethods THEN
           Send(t, ResponseError(method_not_found_error, request.id), "resp_flush")
       ELSE IF ~from_value_ok(request.method, request.params) THEN
           Send(t, ResponseError(deserialize_error, request.id), "resp_flush")
       ELSE
           /\ pc' = [pc EXCEPT ![t] = "handler"]
           /\ chan' = Append(chan, Entry(t, ResponseError(method_not_found_error, request.id)))
           /\ why' = why
    /\ UNCHANGED <<nread, handling, ncalls, request_id, issued, senders_by_id, oneshot,
                   outid, ret, wpc, wcur, wire>>
    /\ UNCHANGED <<codec_vars, middleware_vars>>

\* Mutant: a request for an unbound method is dropped like a notification.
TaskStartDropUnknown(t) ==
    /\ pc[t] = "start"
    /\ LET request == handling[t] IN
       IF request.method \notin RequestMethods THEN
           /\ pc' = [pc EXCEPT ![t] = "done"]
           /\ UNCHANGED <<chan, why>>
       ELSE IF ~from_value_ok(request.method, request.params) THEN
           Send(t, ResponseError(deserialize_error, request.id), "resp_flush")
       ELSE
           /\ pc' = [pc EXCEPT ![t] = "handler"]
           /\ UNCHANGED <<chan, why>>
    /\ UNCHANGED <<nread, handling, ncalls, request_id, issued, senders_by_id, oneshot,
                   outid, ret, wpc, wcur, wire>>
    /\ UNCHANGED <<codec_vars, middleware_vars>>

\* Mutant: the handler of a bound method is called whatever the params are.
TaskStartNoDecode(t) ==
    /\ pc[t] = "start"
    /\ LET request == handling[t] IN
       IF request.method \notin RequestMethods THEN
           Send(t, ResponseError(method_not_found_error, request.id), "resp_flush")
       ELSE
           /\ pc' = [pc EXCEPT ![t] = "handler"]
           /\ UNCHANGED <<chan, why>>
    /\ UNCHANGED <<nread, handling, ncalls, request_id, issued, senders_by_id, oneshot,
                   outid, ret, wpc, wcur, wire>>
    /\ UNCHANGED <<codec_vars, middleware_vars>>

\* The match on request.method; for a bound method handle_request decodes
\* the params and calls the handler.
TaskStart(t) ==
    /\ pc[t] = "start"
    /\ LET request == handling[t] IN
       IF request.method \notin RequestMethods THEN
           Send(t, ResponseError(method_not_found_error, request.id), "resp_flush")
       ELSE IF ~from_value_ok(request.method, request.params) THEN
           Send(t, ResponseError(deserialize_error, request.id), "resp_flush")
       ELSE
           /\ pc' = [pc EXCEPT ![t] = "handler"]
           /\ UNCHANGED <<chan, why>>
    /\ UNCHANGED <<nread, handling, ncalls, request_id, issued, senders_by_id, oneshot,
                   outid, ret, wpc, wcur, wire>>
    /\ UNCHANGED <<codec_vars, middleware_vars>>

\* The handler returns (what its send_request calls returned goes out of
\* scope); the response is serialized and sent.
RequestReturn(t) ==
    /\ t \in Tasks /\ pc[t] = "handler" /\ handling[t].kind = "Request"
    /\ \E outcome \in HandlerOutcomes :
         Send(t, handle_request_response(handling[t], outcome), "resp_flush")
    /\ ret' = [ret EXCEPT ![t] = None]
    /\ UNCHANGED <<nread, handling, ncalls, request_id, issued, senders_by_id, oneshot,
                   outid, wpc, wcur, wire>>
    /\ UNCHANGED <<codec_vars, middleware_vars>>

\* The handler returns Err(error) to the generated handle_request.
RequestReturnError(t) ==
    /\ t \in Tasks /\ pc[t] = "handler" /\ handling[t].kind = "Request"
    /\ \E error \in HandlerErrors :
         Send(t, generated_handle_request_response(handling[t], error), "resp_flush")
    /\ ret' = [ret EXCEPT ![t] = None]
    /\ UNCHANGED <<nread, handling, ncalls, request_id, issued, senders_by_id, oneshot,
                   outid, wpc, wcur, wire>>
    /\ UNCHANGED <<codec_vars, middleware_vars>>

\* The notification's handler returns: handle_incoming returns and the loop
\* goes on to the next frame.
NotificationReturn(a) ==
    /\ pc[a] = "handler" /\ handling[a].kind = "Notification"
    /\ pc' = [pc EXCEPT ![a] = IF a = 0 THEN "read" ELSE "done"]
    /\ handling' = [handling EXCEPT ![a] = IF a = 0 THEN NoMsg ELSE handling[a]]
    /\ ret' = [ret EXCEPT ![a] = None]
    /\ UNCHANGED <<nread, why, ncalls, request_id, issued, senders_by_id, oneshot, outid,
                   chan, wpc, wcur, wire>>
    /\ UNCHANGED <<codec_vars, middleware_vars>>

(***************************************************************************)
(* client.rs, Client::send_notification and Client::send_request, called   *)
(* by a handler through the client handle.                                 *)
(***************************************************************************)
\* Mutant: the notification takes an id from the counter, as a request does.
HandlerSendNotificationWithId(a) ==
    /\ pc[a] = "handler" /\ ncalls < MaxClientCalls
    /\ ncalls' = ncalls + 1
    /\ request_id' = request_id + 1
    /\ Send(a, NotificationNew("window/logMessage", "{}"), "sn_flush")
    /\ UNCHANGED <<nread, handling, issued, senders_by_id, oneshot, outid, ret,
                   wpc, wcur, wire>>
    /\ UNCHANGED <<codec_vars, middleware_vars>>

\* send_notification: Notification::new(method, json!(params)), then
\* output.send(Message::Notification(notification)) on a clone of the Sender.
HandlerSendNotification(a) ==
    /\ pc[a] = "handler" /\ ncalls < MaxClientCalls
    /\ ncalls' = ncalls + 1
    /\ Send(a, NotificationNew("window/logMessage", "{}"), "sn_flush")
    /\ UNCHANGED <<nread, handling, request_id, issued, senders_by_id, oneshot, outid, ret,
                   wpc, wcur, wire>>
    /\ UNCHANGED <<codec_vars, middleware_vars>>

\* Mutant: the counter is read and never advanced.
fetch_add_lost(counter) == [old |-> counter, new |-> counter]

\* let id = self.request_id.fetch_add(1, SeqCst): the value before the add.
fetch_add(counter) == [old |-> counter, new |-> counter + 1]

\* send_request up to oneshot::channel(): the id and the request are made.
HandlerSendRequest(a) ==
    /\ pc[a] = "handler" /\ ncalls < MaxClientCalls
    /\ ncalls' = ncalls + 1
    /\ LET r == fetch_add(request_id) IN
       /\ request_id' = r.new
       /\ outid' = [outid EXCEPT ![a] = IdNumber(r.old)]
       /\ issued' = Append(issued, IdNumber(r.old))
    /\ oneshot' = [oneshot EXCEPT ![a] = [st |-> "open", val |-> Ok("")]]
    /\ pc' = [pc EXCEPT ![a] = "sr_insert"]
    /\ UNCHANGED <<nread, why, handling, senders_by_id, ret, chan, wpc, wcur, wire>>
    /\ UNCHANGED <<codec_vars, middleware_vars>>

\* HashMap::insert: the entry under the key is replaced.
insert(table, id, tx) == {e \in table : e.id # id} \cup {[id |-> id, tx |-> tx]}

\* Mutant: the request is sent first; the entry is not in the table by then.
SrInsertAfterSend(a) ==
    /\ pc[a] = "sr_insert"
    /\ pc' = [pc EXCEPT ![a] = "sr_send"]
    /\ UNCHANGED <<nread, why, handling, ncalls, request_id, issued, senders_by_id, oneshot,
                   outid, ret, chan, wpc, wcur, wire>>
    /\ UNCHANGED <<codec_vars, middleware_vars>>

\* senders_by_id.lock().await; senders_by_id.insert(id, result_tx).  A
\* replaced Sender is dropped, which cancels its Receiver.
SrInsert(a) ==
    /\ pc[a] = "sr_insert"
    /\ senders_by_id' = insert(senders_by_id, outid[a], a)
    /\ oneshot' = [b \in Actors |->
                     IF /\ b # a
                        /\ [id |-> outid[a], tx |-> b] \in senders_by_id
                        /\ oneshot[b].st = "open"
                     THEN [oneshot[b] EXCEPT !.st = "cancelled"]
                     ELSE oneshot[b]]
    /\ pc' = [pc EXCEPT ![a] = "sr_send"]
    /\ UNCHANGED <<nread, why, handling, ncalls, request_id, issued, outid, ret, chan, wpc,
                   wcur, wire>>
    /\ UNCHANGED <<codec_vars, middleware_vars>>

\* output.send(Message::Request(request)).await.unwrap(); a panic here
\* drops result_rx while the entry stays in the table.
SrSend(a) ==
    /\ pc[a] = "sr_send"
    /\ Send(a, RequestNew("window/showMessageRequest", "{}", outid[a]), "sr_flush")
    /\ oneshot' = IF ReceiverGone
                  THEN [oneshot EXCEPT ![a] = [@ EXCEPT !.st = "rx_dropped"]]
                  ELSE oneshot
    /\ UNCHANGED <<nread, handling, ncalls, request_id, issued, senders_by_id, outid, ret,
                   wpc, wcur, wire>>
    /\ UNCHANGED <<codec_vars, middleware_vars>>

\* result_rx.await.unwrap(): the call returns what handle put in the oneshot;
\* a cancelled oneshot is Err(Canceled), and unwrap panics.
SrAwait(a) ==
    /\ pc[a] = "sr_await" /\ oneshot[a].st \in {"sent", "cancelled"}
    /\ IF oneshot[a].st = "sent" THEN
           /\ ret' = [ret EXCEPT ![a] = Some(oneshot[a].val)]
           /\ oneshot' = [oneshot EXCEPT ![a] = NoOneshot]
           /\ pc' = [pc EXCEPT ![a] = "handler"]
           /\ why' = why
       ELSE
           /\ Panic(a, CanceledMsg)
           /\ UNCHANGED <<ret, oneshot>>
    /\ UNCHANGED <<nread, handling, ncalls, request_id, issued, senders_by_id, outid, chan,
                   wpc, wcur, wire>>
    /\ UNCHANGED <<codec_vars, middleware_vars>>

\* Mutant: the send completes as soon as the message is in the channel.
FlushAtOnce(a) ==
    /\ pc[a] \in FlushPcs
    /\ pc' = [pc EXCEPT ![a] = FlushNext(pc[a])]
    /\ handling' = [handling EXCEPT ![a] = IF pc[a] = "perr_flush" THEN NoMsg ELSE handling[a]]
    /\ UNCHANGED <<nread, why, ncalls, request_id, issued, senders_by_id, oneshot, outid,
                   ret, chan, wpc, wcur, wire>>
    /\ UNCHANGED <<codec_vars, middleware_vars>>

\* The flush half of a send: the Receiver has taken the actor's message, or
\* is gone (poll_flush takes a disconnected channel as flushed).
Flush(a) ==
    /\ pc[a] \in FlushPcs
    /\ ReceiverGone \/ \A i \in DOMAIN chan : chan[i].actor # a
    /\ pc' = [pc EXCEPT ![a] = FlushNext(pc[a])]
    /\ handling' = [handling EXCEPT ![a] = IF pc[a] = "perr_flush" THEN NoMsg ELSE handling[a]]
    /\ UNCHANGED <<nread, why, ncalls, request_id, issued, senders_by_id, oneshot, outid,
                   ret, chan, wpc, wcur, wire>>
    /\ UNCHANGED <<codec_vars, middleware_vars>>

(***************************************************************************)
(* lib.rs, listen: the writer task.                                        *)
(***************************************************************************)
\* Mutant: the channel hands out the message accepted last.
WriterRecvLast ==
    /\ wpc = "recv" /\ chan # <<>>
    /\ wcur' = Some(chan[Len(chan)])
    /\ chan' = SubSeq(chan, 1, Len(chan) - 1)
    /\ wpc' = "write"
    /\ UNCHANGED <<nread, pc, why, handling, ncalls, request_id, issued, senders_by_id,
                   oneshot, outid, ret, wire>>
    /\ UNCHANGED <<codec_vars, middleware_vars>>

\* let message = output_rx.next().await.unwrap()
WriterRecv ==
    /\ wpc = "recv" /\ chan # <<>>
    /\ wcur' = Some(Head(chan))
    /\ chan' = Tail(chan)
    /\ wpc' = "write"
    /\ UNCHANGED <<nread, pc, why, handling, ncalls, request_id, issued, senders_by_id,
                   oneshot, outid, ret, wire>>
    /\ UNCHANGED <<codec_vars, middleware_vars>>

\* output.send(message).await is Ok: one frame is on the output.
WriterWrite ==
    /\ wpc = "write"
    /\ wire' = Append(wire, wcur[1])
    /\ wcur' = None
    /\ wpc' = "recv"
    /\ UNCHANGED <<nread, pc, why, handling, ncalls, request_id, issued, senders_by_id,
                   oneshot, outid, ret, chan>>
    /\ UNCHANGED <<codec_vars, middleware_vars>>

\* output.send(message).await is Err: unwrap panics, the task ends and drops
\* output_rx with the messages still in the channel.
WriterFail ==
    /\ wpc = "write"
    /\ wpc' = "failed"
    /\ wcur' = None
    /\ chan' = <<>>
    /\ UNCHANGED <<nread, pc, why, handling, ncalls, request_id, issued, senders_by_id,
                   oneshot, outid, ret, wire>>
    /\ UNCHANGED <<codec_vars, middleware_vars>>

\* Mutant: the channel closes as soon as listen has returned, whatever the
\* tasks still hold.
WriterClosedOnReturn ==
    /\ wpc = "recv" /\ chan = <<>>
    /\ pc[0] \in {"done", "panicked"}
    /\ wpc' = "closed"
    /\ UNCHANGED <<nread, pc, why, handling, ncalls, request_id, issued, senders_by_id,
                   oneshot, outid, ret, chan, wcur, wire>>
    /\ UNCHANGED <<codec_vars, middleware_vars>>

\* output_rx.next().await is None once every Sender is gone (listen has
\* returned or panicked and no task is left): unwrap panics.
WriterClosed ==
    /\ wpc = "recv" /\ chan = <<>>
    /\ pc[0] \in {"done", "panicked"}
    /\ \A t \in Tasks : pc[t] \in {"unspawned", "done", "panicked"}
    /\ wpc' = "closed"
    /\ UNCHANGED <<nread, pc, why, handling, ncalls, request_id, issued, senders_by_id,
                   oneshot, outid, ret, chan, wcur, wire>>
    /\ UNCHANGED <<codec_vars, middleware_vars>>

Next ==
    \/ Read
    \/ ReadEnd
    \/ DispatchRequest
    \/ DispatchNotification
    \/ DispatchParseError
    \/ DispatchResponse
    \/ \E t \in Tasks : TaskStart(t)
    \/ \E t \in Tasks : RequestReturn(t)
    \/ \E a \in Actors : NotificationReturn(a)
    \/ \E a \in Actors : HandlerSendNotification(a)
    \/ \E a \in Actors : HandlerSendRequest(a)
    \/ \E a \in Actors : SrInsert(a)
    \/ \E a \in Actors : SrSend(a)
    \/ \E a \in Actors : SrAwait(a)
    \/ \E a \in Actors : Flush(a)
    \/ WriterRecv
    \/ WriterWrite
    \/ WriterFail
    \/ WriterClosed

Spec == Init /\ [][Next]_vars


(***************************************************************************)
(* Fairness for the liveness properties: the executor runs every spawned   *)
(* task that can make a step, and the writer task takes and writes         *)
(* messages as long as the output accepts them.  Nothing is assumed of the *)
(* peer (Read) or of what a handler chooses to do next.                    *)
(***************************************************************************)
TaskStep(t) ==
    \/ TaskStart(t) \/ RequestReturn(t) \/ HandlerSendNotification(t) \/ HandlerSendRequest(t)
    \/ SrInsert(t) \/ SrSend(t) \/ SrAwait(t) \/ Flush(t)

LiveSpec ==
    /\ Init /\ [][Next]_vars
    /\ \A t \in Tasks : WF_vars(TaskStep(t))
    /\ WF_vars(WriterRecv)
    /\ WF_vars(WriterWrite)

(***************************************************************************)
(* The client in an exchange with the peer, as the tests of client.rs and  *)
(* of tests/integration.rs drive it: the peer first writes Requests for a  *)
(* bound method, whose handlers call the client, and then only Responses.  *)
(* A handler may also fail with a jsonrpc Error, as the handlers of the     *)
(* generated dispatcher do.  Everything else is as in Spec.                *)
(***************************************************************************)
RequestFrames ==
    {f \in Frames : /\ from_str(f).kind = "Request"
                    /\ from_str(f).method \in RequestMethods
                    /\ from_value_ok(from_str(f).method, from_str(f).params)}
ResponseFrames == {f \in Frames : from_str(f).kind = "Response"}

ReadExchange ==
    /\ pc[0] = "read" /\ nread < (MaxFrames - 1) + MaxResponses
    /\ \E f \in (IF nread < MaxFrames - 1 THEN RequestFrames ELSE ResponseFrames) :
         handling' = [handling EXCEPT ![0] = from_str(f)]
    /\ nread' = nread + 1
    /\ pc' = [pc EXCEPT ![0] = "dispatch"]
    /\ UNCHANGED <<why, ncalls, request_id, issued, senders_by_id, oneshot, outid, ret,
                   chan, wpc, wcur, wire>>
    /\ UNCHANGED <<codec_vars, middleware_vars>>

ClientNext ==
    \/ ReadExchange
    \/ ReadEnd
    \/ DispatchRequest
    \/ DispatchResponse
    \/ \E t \in Tasks : TaskStart(t)
    \/ \E t \in Tasks : RequestReturn(t)
    \/ \E t \in Tasks : RequestReturnError(t)
    \/ \E a \in Actors : HandlerSendNotification(a)
    \/ \E a \in Actors : HandlerSendRequest(a)
    \/ \E a \in Actors : SrInsert(a)
    \/ \E a \in Actors : SrSend(a)
    \/ \E a \in Actors : SrAwait(a)
    \/ \E a \in Actors : Flush(a)
    \/ WriterRecv
    \/ WriterWrite
    \/ WriterFail
    \/ WriterClosed

ClientSpec == Init /\ [][ClientNext]_vars

(***************************************************************************)
(* Properties.                                                             *)
(***************************************************************************)
\* Everything accepted on the outbound channel and not dropped, in the order
\* of acceptance: written, being written, waiting in the channel.
Accepted == wire \o wcur \o chan

\* The positions of Accepted that hold a Response sent by task t.
ResponsesOf(t) == {i \in DOMAIN Accepted : Accepted[i].actor = t /\ Accepted[i].msg.kind = "Response"}

\* The pcs of an actor that is inside a handler (or inside a client call the
\* handler made).
HandlerPcs == {"handler", "sn_flush", "sr_insert", "sr_send", "sr_flush", "sr_await"}
RunningNotification(a) == handling[a].kind = "Notification" /\ pc[a] \in HandlerPcs
FrameOf(a) == IF a = 0 THEN nread ELSE a

\* C1: the dispatcher never emits more than one Response for an inbound
\* Request, and a Response it emits for the request carries the request's id.
C1_AtMostOneResponse ==
    \A t \in Tasks :
        /\ Cardinality(ResponsesOf(t)) <= 1
        /\ \A i \in ResponsesOf(t) : Accepted[i].msg.id = handling[t].id

\* C1 witness: two requests have both been answered on the wire, one by the
\* handler's failure and one without a handler (unbound method).
C1_Witness ==
    /\ \E i \in DOMAIN wire : wire[i].msg.error = Some(internal_error("boom"))
    /\ \E i \in DOMAIN wire : wire[i].msg.error = Some(method_not_found_error)

\* The Response of task t is on the wire.
RespWritten(t) ==
    \E i \in DOMAIN wire :
        wire[i].actor = t /\ wire[i].msg.kind = "Response" /\ wire[i].msg.id = handling[t].id

\* C2: every Request that has been read is eventually answered on the wire,
\* unless the output fails (the writer task dies) or the request's handler
\* never terminates (it waits forever in send_request).
C2_ResponseEventuallyWritten ==
    \A t \in Tasks :
        [](pc[t] = "start" => (<>RespWritten(t) \/ <>(wpc = "failed") \/ <>[](pc[t] = "sr_await")))

\* C2 witness: a request whose handler called the client and then failed has
\* its InternalError response on the wire.
C2_Witness ==
    \E t \in Tasks :
        /\ RespWritten(t) /\ pc[t] = "done"
        /\ \E i \in DOMAIN wire : wire[i].actor = t /\ wire[i].msg.kind = "Notification"
        /\ \E i \in DOMAIN wire : wire[i].actor = t /\ wire[i].msg.error = Some(internal_error("boom"))

\* C3: while a notification's handler is in progress, it is the handler of the
\* frame read last and the input loop neither reads nor dispatches: every
\* earlier notification's handler has completed, no later frame has been read.
C3_NotificationsInOrder ==
    \A a \in Actors :
        RunningNotification(a) => FrameOf(a) = nread /\ pc[0] \notin {"read", "dispatch", "done"}

\* C3 witness: the second notification's handler runs after the first one's,
\* which called the client, has completed.
C3_Witness ==
    /\ nread = 2 /\ RunningNotification(0)
    /\ \E i \in DOMAIN wire : wire[i].frame = 1 /\ wire[i].hkind = "Notification"

\* C4: the messages notification handlers emit are accepted on the outbound
\* channel in the order of the notifications' arrival.
C4_NotificationOutputInOrder ==
    \A i, j \in DOMAIN Accepted :
        (i < j /\ Accepted[i].hkind = "Notification" /\ Accepted[j].hkind = "Notification")
            => Accepted[i].frame <= Accepted[j].frame

\* C4 witness: both notifications' handlers emitted a message, and the two
\* messages are on the wire.
C4_Witness ==
    /\ Len(wire) = 2
    /\ wire[1].hkind = "Notification" /\ wire[1].frame = 1
    /\ wire[2].hkind = "Notification" /\ wire[2].frame = 2

\* C5: the k-th fetch_add of the connection yields Number(k-1): the counter
\* starts at 0 and advances by one per call, so no id is handed out twice.
C5_IdsDistinct ==
    /\ request_id = Len(issued)
    /\ \A i \in DOMAIN issued : issued[i] = IdNumber(i - 1)

\* C5 witness: two tasks are inside send_request at the same time, each with
\* its id.
C5_Witness ==
    \E a, b \in Actors : a # b /\ pc[a] = "sr_insert" /\ pc[b] = "sr_insert"

\* The positions of Accepted that hold an outbound Request.
RequestsOut == {i \in DOMAIN Accepted : Accepted[i].msg.kind = "Request"}

\* C6, as claimed: outbound Requests are accepted on the channel in the order
\* of their ids.
C6_AcceptedIdsIncreasing ==
    \A i, j \in RequestsOut : i < j => Accepted[i].msg.id[1].num < Accepted[j].msg.id[1].num

\* C6, amended: ids increase in the order of the fetch_add, and the Requests
\* accepted on the channel carry pairwise distinct ids that were handed out.
C6_IdsIncreaseInAllocationOrder ==
    /\ \A i, j \in DOMAIN issued : i < j => issued[i].num < issued[j].num
    /\ \A i, j \in RequestsOut : i # j => Accepted[i].msg.id # Accepted[j].msg.id
    /\ \A i \in RequestsOut : \E k \in DOMAIN issued : Accepted[i].msg.id = Some(issued[k])

\* C6 witness: the Request with id 1 is on the wire before the one with id 0.
C6_Witness ==
    /\ Len(wire) >= 2
    /\ wire[1].msg.kind = "Request" /\ wire[1].msg.id = Some(IdNumber(1))
    /\ wire[2].msg.kind = "Request" /\ wire[2].msg.id = Some(IdNumber(0))

\* C7: the pending table has at most one entry per id, send_request never
\* inserts under an id that is in the table, and no waiter's sink has been
\* dropped by an insert.
C7_OneEntryPerId ==
    /\ \A e1, e2 \in senders_by_id : e1.id = e2.id => e1 = e2
    /\ \A a \in Actors : pc[a] = "sr_insert" => \A e \in senders_by_id : e.id # outid[a]
    /\ \A a \in Actors : oneshot[a].st # "cancelled"

\* C7 witness: one call has its entry in the table while another is about to
\* insert.
C7_Witness ==
    \E a, b \in Actors : a # b /\ pc[a] = "sr_insert" /\ \E e \in senders_by_id : e.tx = b

\* What the waiter must be resolved with.
ExpectedResult(response) ==
    IF response.error # None THEN [tag |-> "Err", val |-> "", err |-> response.error]
    ELSE IF response.result # None THEN [tag |-> "Ok", val |-> response.result[1], err |-> None]
    ELSE [tag |-> "Ok", val |-> JsonNull, err |-> None]

\* The input loop is about to hand the Response it decoded to Client::handle.
HandlingResponse == pc[0] = "dispatch" /\ handling[0].kind = "Response"

\* C8: handle, given a Response whose id has a pending entry with a live
\* waiter, removes that entry and puts Err(error), or Ok(result) with Null for
\* an omitted result, in that waiter's oneshot and in no other; send_request
\* returns what its oneshot holds.
C8_HandleResolvesWaiter ==
    [][ /\ (/\ HandlingResponse /\ pc'[0] # "dispatch"
            /\ handling[0].id # None
            /\ \E e \in senders_by_id : e.id = handling[0].id[1] /\ oneshot[e.tx].st = "open")
           => \E e \in senders_by_id :
                /\ e.id = handling[0].id[1]
                /\ senders_by_id' = senders_by_id \ {e}
                /\ oneshot' = [oneshot EXCEPT ![e.tx] =
                                  [st |-> "sent", val |-> ExpectedResult(handling[0])]]
                /\ pc'[0] = "read"
        /\ \A a \in Actors :
             (pc[a] = "sr_await" /\ pc'[a] # "sr_await")
                => oneshot[a].st = "sent" /\ pc'[a] = "handler" /\ ret'[a] = Some(oneshot[a].val)
      ]_vars

\* C8 witness: a send_request call has returned the peer's error.
C8_Witness ==
    \E a \in Actors : pc[a] = "handler" /\ ret[a] = Some(Err(PeerError))

\* C9: handle, given a Response without id, panics with "Expected response
\* with id" and leaves the pending table and every oneshot as they were.
C9_ResponseWithoutId ==
    [][ (HandlingResponse /\ pc'[0] # "dispatch" /\ handling[0].id = None)
           => /\ pc'[0] = "panicked" /\ why'[0] = "Expected response with id"
              /\ senders_by_id' = senders_by_id
              /\ oneshot' = oneshot
      ]_vars

\* C9 witness: the panic has happened while a request was pending.
C9_Witness ==
    /\ pc[0] = "panicked" /\ why[0] = "Expected response with id"
    /\ senders_by_id # {}

\* C10: handle, given a Response whose id has no entry in the pending table,
\* panics with "Unexpected response received", resolves no waiter and leaves
\* the entries of the table in place.
C10_UnexpectedResponse ==
    [][ (/\ HandlingResponse /\ pc'[0] # "dispatch"
         /\ handling[0].id # None
         /\ \A e \in senders_by_id : e.id # handling[0].id[1])
           => /\ pc'[0] = "panicked" /\ why'[0] = "Unexpected response received"
              /\ senders_by_id' = senders_by_id
              /\ oneshot' = oneshot
      ]_vars

\* C10 witness: the panic has happened while a request with another id was
\* pending, and its entry is still there.
C10_Witness ==
    /\ pc[0] = "panicked" /\ why[0] = "Unexpected response received"
    /\ \E e \in senders_by_id : oneshot[e.tx].st = "open"

\* Where an outbound id is in its life, read off the state: handed out by
\* fetch_add; on its way into the table; in the table; taken out of it.
IdsIssued == {issued[k] : k \in DOMAIN issued}
Inserting(id) == \E a \in Actors : pc[a] = "sr_insert" /\ outid[a] = id
Pending(id) == \E e \in senders_by_id : e.id = id
Removed(id) == id \in IdsIssued /\ ~Inserting(id) /\ ~Pending(id)

\* C11: a second Response for an id whose entry handle has taken out of the
\* table is flagged (the panic "Unexpected response received") and changes
\* neither a oneshot nor what a send_request call returned; and a value that
\* sits in a waiter's oneshot is never replaced: it is returned, unchanged, to
\* that waiter, or dropped with a waiter that panics before it awaits.
C11_SecondResponseFlagged ==
    [][ /\ (/\ HandlingResponse /\ pc'[0] # "dispatch"
            /\ handling[0].id # None /\ Removed(handling[0].id[1]))
           => /\ pc'[0] = "panicked" /\ why'[0] = "Unexpected response received"
              /\ oneshot' = oneshot /\ ret' = ret /\ senders_by_id' = senders_by_id
        /\ \A a \in Actors :
             oneshot[a].st = "sent"
                => \/ oneshot'[a] = oneshot[a]
                   \/ oneshot'[a] = NoOneshot /\ ret'[a] = Some(oneshot[a].val)
                   \/ /\ pc'[a] = "panicked"
                      /\ oneshot'[a] = [oneshot[a] EXCEPT !.st = "rx_dropped"]
      ]_vars

\* C11 witness: after a single send_request, the first Response for id 0
\* delivered "v" to the waiter and the second Response for id 0 was flagged.
C11_Witness ==
    /\ request_id = 1 /\ Removed(IdNumber(0))
    /\ pc[0] = "panicked" /\ why[0] = "Unexpected response received"
    /\ handling[0].id = Some(IdNumber(0))
    /\ \E a \in Actors :
         \/ oneshot[a] = [st |-> "sent", val |-> Ok("v")]
         \/ ret[a] = Some(Ok("v"))

\* The state of an outbound id in the lifecycle of the pending table.
\* "Allocated" is the part of send_request between the fetch_add and the
\* insert; "Resolved" and "Rejected" are an Ok and an Err in the waiter's
\* oneshot; "Collected" is the entry gone and no value left to pick up.
IdState(id) ==
    IF id \notin IdsIssued THEN "Unallocated"
    ELSE IF Inserting(id) THEN "Allocated"
    ELSE IF Pending(id) THEN "Pending"
    ELSE IF \E a \in Actors : outid[a] = id /\ oneshot[a].st = "sent" /\ oneshot[a].val.tag = "Ok"
         THEN "Resolved"
    ELSE IF \E a \in Actors : outid[a] = id /\ oneshot[a].st = "sent" THEN "Rejected"
    ELSE "Collected"

OutboundIds == {IdNumber(n) : n \in 0..MaxClientCalls}

HandlingParseError == pc[0] = "dispatch" /\ handling[0].kind = "Err"

\* No task is spawned and no handler is entered in the step.
NoHandlerInvoked == \A a \in Actors : pc'[a] = "handler" => pc[a] = "handler"
NoTaskSpawned == \A t \in Tasks : pc[t] = "unspawned" => pc'[t] = "unspawned"

\* C13: for a frame that does not decode, the input loop, while the writer
\* task lives, puts exactly one message on the outbound channel, the Response
\* with no id, no result and the error ParseError "Could not parse the input";
\* it invokes no handler and spawns no task; and once that send is flushed it
\* is back at reading the next frame.
C13_ParseErrorResponse ==
    [][ /\ (HandlingParseError /\ ~ReceiverGone /\ pc'[0] # "dispatch")
           => /\ Len(chan') = Len(chan) + 1
              /\ \A i \in DOMAIN chan : chan'[i] = chan[i]
              /\ LET m == chan'[Len(chan')].msg IN
                   /\ m.kind = "Response" /\ m.id = None /\ m.result = None
                   /\ m.error = Some([code |-> -32700,
                                      message |-> "Could not parse the input",
                                      data |-> None])
              /\ pc'[0] = "perr_flush"
              /\ NoHandlerInvoked /\ NoTaskSpawned
        /\ (pc[0] = "perr_flush" /\ pc'[0] # "perr_flush")
           => /\ pc'[0] = "read" /\ nread' = nread
              /\ \A i \in DOMAIN chan' : chan'[i].actor # 0
              /\ NoHandlerInvoked /\ NoTaskSpawned
      ]_vars

\* C13 witness: the first frame did not decode and its ParseError response is
\* on the wire; the second frame, a Request, was read after it and has been
\* answered with its handler's result.
C13_Witness ==
    /\ Len(wire) = 2
    /\ wire[1].frame = 1 /\ wire[1].msg = ResponseError(parse_error, None)
    /\ wire[2].frame = 2 /\ wire[2].msg.kind = "Response" /\ wire[2].msg.result # None

\* The step appends exactly the message m, sent by actor a, to the channel.
Enqueues(a, m) ==
    /\ Len(chan') = Len(chan) + 1
    /\ \A i \in DOMAIN chan : chan'[i] = chan[i]
    /\ chan'[Len(chan')].actor = a /\ chan'[Len(chan')].msg = m

\* The error Response with the given code and message for the given id.
ErrorResponse(code, message, id) ==
    [kind |-> "Response", jsonrpc |-> "2.0", method |-> "", params |-> "", id |-> id,
     result |-> None, error |-> Some([code |-> code, message |-> message, data |-> None])]

\* C14: the task of a Request whose method is not one of the request arms
\* sends, as its only message, the Response with the request's id and the
\* error MethodNotFound "Method not found", and is never inside a handler.
C14_MethodNotFound ==
    [][ \A t \in Tasks :
          handling[t].kind = "Request" /\ handling[t].method \notin RequestMethods
            => /\ pc'[t] \notin HandlerPcs
               /\ (pc[t] = "start" /\ pc'[t] # "start" /\ ~ReceiverGone)
                    => /\ Enqueues(t, ErrorResponse(-32601, "Method not found", handling[t].id))
                       /\ pc'[t] = "resp_flush"
               /\ (pc[t] = "resp_flush" /\ pc'[t] # "resp_flush")
                    => pc'[t] = "done" /\ Len(chan') <= Len(chan)
      ]_vars

\* C14 witness: the request for the unbound method "foo" with id 1 has its
\* MethodNotFound response on the wire and its task has ended.
C14_Witness ==
    \E t \in Tasks :
        /\ handling[t].method = "foo" /\ pc[t] = "done"
        /\ \E i \in DOMAIN wire :
             /\ wire[i].actor = t
             /\ wire[i].msg = ErrorResponse(-32601, "Method not found", Some(IdNumber(1)))

\* The input loop is about to act on a Notification.
HandlingNotification == pc[0] = "dispatch" /\ handling[0].kind = "Notification"

\* C15: for a Notification whose method is not one of the notification
\* arms, the input loop puts nothing on the outbound channel, invokes no
\* handler, spawns no task, does not panic, and is back at reading.
C15_UnknownNotificationDropped ==
    [][ (/\ HandlingNotification /\ handling[0].method \notin NotificationMethods
         /\ pc'[0] # "dispatch")
           => /\ pc'[0] = "read" /\ why' = why
              /\ chan' = chan /\ wcur' = wcur /\ wire' = wire
              /\ NoHandlerInvoked /\ NoTaskSpawned
      ]_vars

\* C15 witness: the second frame is a Notification for the unbound method
\* "foo", which the input loop is about to drop while a request is in progress.
C15_Witness ==
    /\ nread = 2 /\ HandlingNotification /\ handling[0].method = "foo"
    /\ pc[1] = "handler"

\* C16: the task of a Request for a bound method whose params do not decode
\* sends, as its only message, the Response with the request's id and the
\* error InvalidParams "Could not deserialize parameter object", and is never
\* inside the handler.
C16_InvalidParams ==
    [][ \A t \in Tasks :
          (/\ handling[t].kind = "Request" /\ handling[t].method \in RequestMethods
           /\ ~from_value_ok(handling[t].method, handling[t].params))
            => /\ pc'[t] \notin HandlerPcs
               /\ (pc[t] = "start" /\ pc'[t] # "start" /\ ~ReceiverGone)
                    => /\ Enqueues(t, ErrorResponse(-32602,
                                       "Could not deserialize parameter object", handling[t].id))
                       /\ pc'[t] = "resp_flush"
               /\ (pc[t] = "resp_flush" /\ pc'[t] # "resp_flush")
                    => pc'[t] = "done" /\ Len(chan') <= Len(chan)
      ]_vars

\* C16 witness: the initialize request with null params and id 1 has its
\* InvalidParams response on the wire and its task has ended.
C16_Witness ==
    \E t \in Tasks :
        /\ handling[t].method = "initialize" /\ handling[t].params = JsonNull /\ pc[t] = "done"
        /\ \E i \in DOMAIN wire :
             /\ wire[i].actor = t
             /\ wire[i].msg = ErrorResponse(-32602, "Could not deserialize parameter object",
                                             Some(IdNumber(1)))

\* C17: for a Notification for a bound method whose params do not decode,
\* the input loop's task panics with "Could not deserialize parameter object";
\* no handler is invoked and nothing is put on the outbound channel.
C17_NotificationDecodePanics ==
    [][ (/\ HandlingNotification /\ handling[0].method \in NotificationMethods
         /\ ~from_value_ok(handling[0].method, handling[0].params)
         /\ pc'[0] # "dispatch")
           => /\ pc'[0] = "panicked"
              /\ why'[0] = "Could not deserialize parameter object"
              /\ chan' = chan /\ wcur' = wcur /\ wire' = wire
              /\ NoHandlerInvoked /\ NoTaskSpawned
      ]_vars

\* C17 witness: the input loop has panicked on the second frame, an
\* initialized notification with null params, while the task of the first
\* frame's request is still inside its handler.
C17_Witness ==
    /\ nread = 2 /\ pc[0] = "panicked"
    /\ why[0] = "Could not deserialize parameter object"
    /\ handling[0].kind = "Notification" /\ handling[0].method = "initialized"
    /\ pc[1] = "handler"

\* The Responses the claim asks for: for the handler's value; for the
\* handler's message; for the handler's jsonrpc Error.
ResultResponse(value, id) ==
    [kind |-> "Response", jsonrpc |-> "2.0", method |-> "", params |-> "", id |-> id,
     result |-> Some(value), error |-> None]
ForwardedErrorResponse(error, id) ==
    [kind |-> "Response", jsonrpc |-> "2.0", method |-> "", params |-> "", id |-> id,
     result |-> None, error |-> Some(error)]

\* C18: when the handler of a request returns, the task sends, as its one
\* Response, the Response with the request's id that has the handler's value
\* as result and no error, or, for a failure, no result and as error
\* InternalError with the handler's message, or the handler's jsonrpc Error
\* as it is.
C18_HandlerOutcomeResponse ==
    [][ \A t \in Tasks :
          (/\ handling[t].kind = "Request" /\ pc[t] = "handler"
           /\ pc'[t] \notin HandlerPcs /\ ~ReceiverGone)
            => /\ pc'[t] = "resp_flush"
               /\ \/ Enqueues(t, ResultResponse(JsonNull, handling[t].id))
                  \/ Enqueues(t, ErrorResponse(-32603, "boom", handling[t].id))
                  \/ \E error \in HandlerErrors :
                       Enqueues(t, ForwardedErrorResponse(error, handling[t].id))
      ]_vars

\* C18 witness: a request whose handler called the client and then failed
\* with its own Error has been answered with that Error, and no result, on
\* the wire.
C18_Witness ==
    \E t \in Tasks :
        /\ pc[t] = "done"
        /\ \E i \in DOMAIN wire : wire[i].actor = t /\ wire[i].msg.kind = "Notification"
        /\ \E i \in DOMAIN wire :
             /\ wire[i].actor = t /\ wire[i].msg.kind = "Response"
             /\ wire[i].msg.id = handling[t].id /\ wire[i].msg.result = None
             /\ wire[i].msg.error = Some([code |-> -32600, message |-> "bad", data |-> None])

\* C19: the output only changes by the writer task writing the message it
\* took from the channel, and what it writes is the earliest accepted message
\* that is not yet written: the wire is at every moment a prefix of the
\* messages in the order of their acceptance, each written once and whole.
\* While the writer task lives, an accepted message stays until it is
\* written; a write error ends the writer task and drops the rest.
C19_WireInAcceptanceOrder ==
    [][ /\ wire' # wire
           => /\ wpc = "write" /\ wcur # None
              /\ Len(Accepted) > Len(wire)
              /\ wire' = Append(wire, Accepted[Len(wire) + 1])
              /\ pc' = pc
        /\ \/ Accepted' = Accepted
           \/ /\ Len(Accepted') = Len(Accepted) + 1
              /\ \A i \in DOMAIN Accepted : Accepted'[i] = Accepted[i]
              /\ wire' = wire
           \/ wpc = "write" /\ wpc' = "failed" /\ Accepted' = wire
      ]_vars

\* C19 witness: three producers, the input loop (a parse error response), a
\* request task (its response) and a client call (a notification), each have
\* a frame on the wire.
C19_Witness ==
    /\ Len(wire) = 3
    /\ \E i \in DOMAIN wire : wire[i].actor = 0 /\ wire[i].msg.kind = "Response"
    /\ \E i \in DOMAIN wire : wire[i].actor # 0 /\ wire[i].msg.kind = "Response"
    /\ \E i \in DOMAIN wire : wire[i].msg.kind = "Notification"

\* The input loop is about to act on a Request.
HandlingRequest == pc[0] = "dispatch" /\ handling[0].kind = "Request"

\* C20: acting on a Request, the input loop spawns the request's task and is
\* back at reading at once, whatever the tasks of earlier requests are doing;
\* and when the handlers of two requests are both in progress, either may
\* return, and so respond, first.
C20_RequestsConcurrent ==
    /\ [][ (HandlingRequest /\ pc'[0] # "dispatch")
             => /\ pc'[0] = "read"
                /\ pc'[nread] = "start" /\ handling'[nread] = handling[0]
                /\ \A t \in Tasks \ {nread} : pc'[t] = pc[t]
          ]_vars
    /\ [](\A t, u \in Tasks :
             (t # u /\ pc[t] = "handler" /\ pc[u] = "handler")
                => ENABLED RequestReturn(t) /\ ENABLED RequestReturn(u))

\* C20 witness: the Response of the second request is on the wire before
\* the Response of the first.
C20_Witness ==
    /\ Len(wire) = 2
    /\ wire[1].actor = 2 /\ wire[1].msg.kind = "Response" /\ wire[1].msg.id = handling[2].id
    /\ wire[2].actor = 1 /\ wire[2].msg.kind = "Response" /\ wire[2].msg.id = handling[1].id

\* The other states C20 names: both handlers in progress at once, and the
\* Responses on the wire in the order of the requests.
C20_BothInProgress == pc[1] = "handler" /\ pc[2] = "handler"
C20_ArrivalOrder ==
    /\ Len(wire) = 2
    /\ wire[1].actor = 1 /\ wire[1].msg.kind = "Response"
    /\ wire[2].actor = 2 /\ wire[2].msg.kind = "Response"

\* A send_request call that is suspended on its oneshot, its entry in the table.
Suspended(a) ==
    /\ pc[a] = "sr_await" /\ oneshot[a].st = "open"
    /\ [id |-> outid[a], tx |-> a] \in senders_by_id

\* C21, as claimed: once listen has returned, the entries of the pending
\* table are taken out and their waiters signalled, so that no send_request
\* call stays suspended on its entry (set aside the case of a failed output).
C21_PendingDrainedOnShutdown ==
    (pc[0] = "done") ~> ((\A a \in Actors : ~Suspended(a)) \/ wpc = "failed")

\* C21: the state the claim excludes: listen has returned, the writer task has
\* written everything, and a call is suspended with its entry in the table,
\* where no step of the program can take it out.
C21_Witness ==
    /\ pc[0] = "done" /\ wpc = "recv" /\ chan = <<>>
    /\ \E a \in Tasks : Suspended(a)
    /\ \A a \in Tasks : Suspended(a) \/ pc[a] \in {"unspawned", "done", "panicked"}
    /\ ~ENABLED Next

\* C22: listen returns only from the point where it awaits the next frame,
\* when the input yields its end or a framing error, and that is always
\* possible there.  A frame that does not parse is answered and the loop reads
\* on (while the writer task lives); a Request is handed to its task and the
\* loop reads on; and nothing the task of a Request does (an unbound method,
\* params that do not decode, a handler that fails) moves the input loop.
C22_ListenEndsOnInputEndOnly ==
    /\ [][ /\ (pc[0] # "done" /\ pc'[0] = "done")
                => pc[0] = "read" /\ nread' = nread /\ handling[0] = NoMsg
           /\ (HandlingParseError /\ ~ReceiverGone /\ pc'[0] # pc[0]) => pc'[0] = "perr_flush"
           /\ (pc[0] = "perr_flush" /\ pc'[0] # pc[0]) => pc'[0] = "read"
           /\ (HandlingRequest /\ pc'[0] # pc[0]) => pc'[0] = "read"
           /\ \A t \in Tasks :
                (handling[t].kind = "Request" /\ pc'[t] # pc[t]) => pc'[0] = pc[0]
           /\ pc[0] = "done" => pc'[0] = "done"
         ]_vars
    /\ [](pc[0] = "read" => ENABLED (ReadEnd /\ pc'[0] = "done"))

\* C22 witness: listen has returned after a frame that did not parse and a
\* Request whose handler failed, both answered on the wire.
C22_Witness ==
    /\ pc[0] = "done" /\ nread = 2
    /\ \E i \in DOMAIN wire : wire[i].frame = 1 /\ wire[i].msg = ResponseError(parse_error, None)
    /\ \E i \in DOMAIN wire :
         wire[i].frame = 2 /\ wire[i].msg.error = Some(internal_error("boom"))

\* Task t has been spawned and has not ended.
Live(t) == pc[t] \notin {"unspawned", "done", "panicked"}

\* C23: after listen has returned, the task of a Request that was spawned
\* before goes on: the writer task does not end while such a task lives, and
\* the task's Response gets on the wire, unless the output fails or the handler
\* waits forever in send_request.
C23_TasksOutliveListen ==
    /\ [](\A t \in Tasks : (pc[0] = "done" /\ Live(t)) => wpc # "closed")
    /\ \A t \in Tasks :
         []((pc[0] = "done" /\ Live(t))
              => (<>RespWritten(t) \/ <>(wpc = "failed") \/ <>[](pc[t] = "sr_await")))

\* C23 witness: listen has returned while the handler of the first Request is
\* in progress and the task of the second has not yet matched its method;
\* nothing has been written so far.
C23_Witness ==
    /\ pc[0] = "done" /\ pc[1] = "handler" /\ pc[2] = "start"
    /\ wire = <<>> /\ wpc = "recv"

(***************************************************************************)
(* The input below the frames: what the peer writes is a header and a      *)
(* body, and LspCodec's Decoder turns it into the item input.next() yields. *)
(* The Decoder follows its decode contract: one item, the body, per        *)
(* complete frame; framing_error for a frame without Content-Length or     *)
(* with a length that is no integer.                                       *)
(***************************************************************************)
Headers == {"Content-Length", "missing", "non-integer"}
FramedBodies == {Garbage} \cup {f \in Frames : from_str(f).kind = "Request"}
RawFrames == [header : Headers, body : FramedBodies]

decode(raw) ==
    IF raw.header = "Content-Length" THEN [ok |-> TRUE, json |-> raw.body]
    ELSE [ok |-> FALSE, json |-> Garbage]

\* What the input loop holds after input.next() has yielded Some(Err(_)).
FramingErr ==
    [kind |-> "FramingErr", jsonrpc |-> "", method |-> "", params |-> "",
     id |-> None, result |-> None, error |-> None]

\* Mutant: the loop skips an item that is Some(Err(_)) and reads on.
ReadFramedSkip ==
    /\ pc[0] = "read" /\ nread < MaxFrames
    /\ \E raw \in RawFrames :
         LET item == decode(raw) IN
         IF item.ok THEN
             /\ handling' = [handling EXCEPT ![0] = from_str(item.json)]
             /\ pc' = [pc EXCEPT ![0] = "dispatch"]
         ELSE
             /\ handling' = [handling EXCEPT ![0] = FramingErr]
             /\ pc' = [pc EXCEPT ![0] = "read"]
    /\ nread' = nread + 1
    /\ UNCHANGED <<why, ncalls, request_id, issued, senders_by_id, oneshot, outid, ret,
                   chan, wpc, wcur, wire>>
    /\ UNCHANGED <<codec_vars, middleware_vars>>

\* while let Some(Ok(json)) = input.next().await: Some(Ok(json)) goes to
\* handle_incoming, Some(Err(_)) ends the loop.
ReadFramed ==
    /\ pc[0] = "read" /\ nread < MaxFrames
    /\ \E raw \in RawFrames :
         LET item == decode(raw) IN
         IF item.ok THEN
             /\ handling' = [handling EXCEPT ![0] = from_str(item.json)]
             /\ pc' = [pc EXCEPT ![0] = "dispatch"]
         ELSE
             /\ handling' = [handling EXCEPT ![0] = FramingErr]
             /\ pc' = [pc EXCEPT ![0] = "done"]
    /\ nread' = nread + 1
    /\ UNCHANGED <<why, ncalls, request_id, issued, senders_by_id, oneshot, outid, ret,
                   chan, wpc, wcur, wire>>
    /\ UNCHANGED <<codec_vars, middleware_vars>>

FramingNext ==
    \/ ReadFramed
    \/ ReadEnd
    \/ DispatchRequest
    \/ DispatchParseError
    \/ \E t \in Tasks : TaskStart(t)
    \/ \E t \in Tasks : RequestReturn(t)
    \/ \E a \in Actors : Flush(a)
    \/ WriterRecv
    \/ WriterWrite
    \/ WriterFail
    \/ WriterClosed

FramingSpec == Init /\ [][FramingNext]_vars

\* The ParseError response of the frame read last is among the accepted messages.
ParseErrorAnswered ==
    \E i \in DOMAIN Accepted :
        Accepted[i].frame = nread /\ Accepted[i].msg = ResponseError(parse_error, None)

\* C24, as claimed: a frame without Content-Length is answered with the
\* ParseError response without id, and the connection goes on.
C24_MissingContentLengthAnswered ==
    handling[0] = FramingErr => (pc[0] # "done" /\ (ReceiverGone \/ ParseErrorAnswered))

\* C24, amended: a frame without Content-Length (a framing error) ends the
\* input loop: listen returns at once, nothing is put on the outbound channel
\* for the frame, no handler runs for it, and no later frame is read; the
\* ParseError response without id answers a framed body that does not decode.
C24_FramingErrorEndsListen ==
    [][ /\ (pc[0] = "read" /\ handling'[0] = FramingErr)
           => /\ pc'[0] = "done"
              /\ chan' = chan /\ wcur' = wcur /\ wire' = wire
              /\ NoHandlerInvoked /\ NoTaskSpawned
        /\ handling[0] = FramingErr
           => /\ handling'[0] = FramingErr /\ pc'[0] = "done" /\ nread' = nread
              /\ ~ParseErrorAnswered'
        /\ (HandlingParseError /\ ~ReceiverGone /\ pc'[0] # "dispatch") => ParseErrorAnswered'
      ]_vars

\* C24 witness: the first frame was framed and did not decode, and its
\* ParseError response is on the wire; the second frame had no Content-Length,
\* and listen has returned without a word.
C24_Witness ==
    /\ nread = 2 /\ handling[0] = FramingErr /\ pc[0] = "done"
    /\ Len(wire) = 1
    /\ wire[1].frame = 1 /\ wire[1].msg = ResponseError(parse_error, None)

\* The step is actor a's attempt to put a message on the outbound channel:
\* the ParseError response, the Response of a request's task (for an unbound
\* method, for params that do not decode, for the handler's outcome), the
\* Notification of send_notification, the Request of send_request.
EnqueueAttempt(a) ==
    \/ a = 0 /\ HandlingParseError /\ pc'[0] # "dispatch"
    \/ pc[a] = "start" /\ pc'[a] \notin {"start", "handler"}
    \/ pc[a] = "handler" /\ pc'[a] \notin {"handler", "sr_insert", "read", "done"}
    \/ pc[a] = "sr_send" /\ pc'[a] # "sr_send"

\* C25: once a write to the output has failed, the writer task has ended: the
\* output stays as it is and the channel holds nothing.  From then on every
\* attempt to enqueue fails (the sender's task panics on the SendError), no
\* message enters the channel, and no sender is suspended: an attempt is always
\* able to take its step, and a send that was waiting to be flushed completes.
C25_SendsFailAfterWriteError ==
    [][ wpc = "failed"
          => /\ wpc' = "failed" /\ wire' = wire
             /\ chan = <<>> /\ chan' = <<>> /\ wcur = None /\ wcur' = None
             /\ \A a \in Actors :
                  /\ EnqueueAttempt(a) => pc'[a] = "panicked" /\ why'[a] = "unwrap on Err: SendError"
                  /\ pc'[a] \in FlushPcs => pc[a] = pc'[a]
                  /\ pc[a] \in FlushPcs => ENABLED Flush(a)
                  /\ pc[a] = "sr_send" => ENABLED SrSend(a)
                  /\ pc[a] = "start" => ENABLED TaskStart(a)
                  /\ (pc[a] = "handler" /\ handling[a].kind = "Request") => ENABLED RequestReturn(a)
                  /\ (pc[a] = "handler" /\ ncalls < MaxClientCalls)
                       => ENABLED HandlerSendNotification(a)
             /\ HandlingParseError => ENABLED DispatchParseError
      ]_vars

\* C25 witness: the write of a handler's notification failed; after that the
\* handler's task panicked on sending its Response, and the input loop on
\* sending the ParseError response of the next frame.
C25_Witness ==
    /\ wpc = "failed" /\ wire = <<>>
    /\ pc[0] = "panicked" /\ why[0] = SendErrorMsg /\ handling[0].kind = "Err"
    /\ pc[1] = "panicked" /\ why[1] = SendErrorMsg /\ ncalls = 1

(***************************************************************************)
(* The conversions on their own: serde_json::to_string of a Message and    *)
(* serde_json::from_str::<Message> of a text, as the tests of jsonrpc.rs   *)
(* and handle_incoming call them.                                          *)
(***************************************************************************)
program_vars == <<nread, pc, why, handling, ncalls, request_id, issued, senders_by_id,
                  oneshot, outid, ret, chan, wpc, wcur, wire>>

\* The JSON objects a text may hold: every combination of the fields being
\* there or not, with a few values each.
Versions == {PROTOCOL_VERSION, "1.0"}
JsonValues == {JsonNull, "{}", "v"}
Ids == {IdNumber(0), IdNumber(1), IdString("0")}
Objects ==
    [json : {TRUE},
     jsonrpc : {None} \cup {Some(v) : v \in Versions},
     method : {None, Some("initialize")},
     params : {None, Some("{}"), Some(JsonNull)},
     id : {None, Some(IdNumber(0)), Some(IdString("0")), Some(IdJsonNull)},
     result : {None, Some(JsonNull), Some("v")},
     error : {None, Some(PeerError)}]
Texts == Objects \cup {Garbage}

\* The Messages the constructors build.  The Error of Response::error is any
\* Error: one of Error's constructors, or a struct with data.
Errors ==
    {parse_error, PeerError,
     [code |-> InvalidRequest, message |-> "bad", data |-> Some("v")],
     [code |-> InvalidRequest, message |-> "bad", data |-> Some(JsonNull)]}
BuiltMessages ==
    {RequestNew("initialize", p, i) : p \in JsonValues, i \in Ids}
        \cup {NotificationNew("initialized", p) : p \in JsonValues}
        \cup {ResponseResult(r, i) : r \in JsonValues, i \in Ids}
        \cup {ResponseError(e, i) : e \in Errors, i \in {None} \cup {Some(k) : k \in Ids}}

\* derive(Serialize): the fields in the order of declaration; result, error
\* and data are skipped when None (skip_serializing_if); the id of a Response
\* is always written, null for None.
to_string(m) ==
    CASE m.kind = "Request" ->
           Obj(Some(m.jsonrpc), Some(m.method), Some(m.params), m.id, None, None)
      [] m.kind = "Notification" ->
           Obj(Some(m.jsonrpc), Some(m.method), Some(m.params), None, None, None)
      [] m.kind = "Response" ->
           Obj(Some(m.jsonrpc), None, None, IF m.id = None THEN Some(IdJsonNull) ELSE m.id,
               m.result, m.error)

\* A Message is built, to be serialized.
Build ==
    /\ original = NoMsg /\ json = None
    /\ \E m \in BuiltMessages : original' = m
    /\ UNCHANGED <<json, decoded>>
    /\ UNCHANGED program_vars
    /\ UNCHANGED middleware_vars

\* A text arrives, to be deserialized.
Receive ==
    /\ original = NoMsg /\ json = None
    /\ \E f \in Texts : json' = Some(f)
    /\ UNCHANGED <<original, decoded>>
    /\ UNCHANGED program_vars
    /\ UNCHANGED middleware_vars

\* let json = serde_json::to_string(&message).unwrap()
Serialize ==
    /\ original # NoMsg /\ json = None
    /\ json' = Some(to_string(original))
    /\ UNCHANGED <<original, decoded>>
    /\ UNCHANGED program_vars
    /\ UNCHANGED middleware_vars

\* serde_json::from_str(json)
Deserialize ==
    /\ json # None /\ decoded = NoMsg
    /\ decoded' = from_str(json[1])
    /\ UNCHANGED <<original, json>>
    /\ UNCHANGED program_vars
    /\ UNCHANGED middleware_vars

CodecNext ==
    \/ Build
    \/ Receive
    \/ Serialize
    \/ Deserialize

CodecSpec == Init /\ [][CodecNext]_vars

\* A text that arrived has been deserialized.
Deserialized == original = NoMsg /\ json # None /\ decoded # NoMsg
HasId(f) == f.id # None /\ f.id # Some(IdJsonNull)
HasMethod(f) == f.method # None

\* C26, as claimed: for a JSON-RPC 2.0 object, whatever other fields it has,
\* the variant follows from id and method being there: both make a Request,
\* never a Response; method alone makes a Notification; id with result or
\* error and no method makes a Response.
C26_VariantByFieldPresence ==
    (Deserialized /\ json[1].json /\ json[1].jsonrpc = V2 /\ json[1].id # Some(IdJsonNull))
      => LET f == json[1] IN
         /\ (HasId(f) /\ HasMethod(f)) => decoded.kind = "Request"
         /\ (HasId(f) /\ HasMethod(f)) => decoded.kind # "Response"
         /\ (~HasId(f) /\ HasMethod(f)) => decoded.kind = "Notification"
         /\ (HasId(f) /\ ~HasMethod(f) /\ (f.result # None \/ f.error # None))
               => decoded.kind = "Response"

\* C26: the object with jsonrpc, id 0 and method initialize, and no params,
\* has been deserialized as a Response.
C26_Witness ==
    /\ json = Some(Obj(V2, Some("initialize"), None, Some(IdNumber(0)), None, None))
    /\ decoded = [kind |-> "Response", jsonrpc |-> "2.0", method |-> "", params |-> "",
                  id |-> Some(IdNumber(0)), result |-> None, error |-> None]

\* C27, as claimed: a text whose jsonrpc field is there and is not "2.0" is
\* not deserialized into a Message: from_str fails, which is the one case
\* handle_incoming answers with the ParseError response and dispatches nothing.
C27_VersionMismatchRejected ==
    (Deserialized /\ json[1].json /\ json[1].jsonrpc # None /\ json[1].jsonrpc # Some("2.0"))
      => decoded = DecodeErr

\* C27: the initialize Request with id 0 that says jsonrpc 1.0 has been
\* deserialized as a Request, which handle_incoming dispatches.
C27_Witness ==
    /\ json = Some(Obj(Some("1.0"), Some("initialize"), Some("{}"), Some(IdNumber(0)), None, None))
    /\ decoded = [RequestNew("initialize", "{}", IdNumber(0)) EXCEPT !.jsonrpc = "1.0"]

\* A Message that was built has been serialized and deserialized again.
RoundTripped == original # NoMsg /\ json # None /\ decoded # NoMsg

\* C28, as claimed: what from_str makes of to_string(m) is m, for every
\* Message m the constructors build; a result that is null is written as a
\* null result and read back as Some(null), a result that is None is not
\* written and read back as None.
C28_RoundTrip ==
    /\ RoundTripped => decoded = original
    /\ (original.kind = "Response" /\ json # None)
         => /\ original.result = Some(JsonNull) => json[1].result = Some(JsonNull)
            /\ original.result = None => json[1].result = None

\* C28: the error Response whose Error has data Some(null) has come back
\* from the round trip with data None.
C28_Witness ==
    /\ RoundTripped
    /\ original.error = Some([code |-> InvalidRequest, message |-> "bad", data |-> Some(JsonNull)])
    /\ json[1].error = original.error
    /\ decoded = [original EXCEPT !.error = Some([@[1] EXCEPT !.data = None])]

\* The positions of Accepted that hold a Response: the dispatcher's own, as
\* the client sends Requests and Notifications only.
ResponsesOut == {i \in DOMAIN Accepted : Accepted[i].msg.kind = "Response"}

\* C29: a Response the dispatcher emits has either a result or an error, not
\* both and not neither; it has no id (null on the wire) exactly when it is
\* the ParseError response, sent by the input loop for a frame that did not
\* decode; any other Response is sent by the task of a Request and carries
\* that Request's id.
C29_ResponseShape ==
    \A i \in ResponsesOut :
        LET e == Accepted[i]
            m == e.msg
        IN  /\ (m.result # None) # (m.error # None)
            /\ m.id = None <=> (e.actor = 0 /\ e.hkind = "Err")
            /\ m.id = None => (m.error = Some(parse_error) /\ to_string(m).id = Some(IdJsonNull))
            /\ m.id # None
                 => /\ e.actor \in Tasks /\ e.hkind = "Request"
                    /\ handling[e.actor].kind = "Request"
                    /\ m.id = handling[e.actor].id
                    /\ to_string(m).id = handling[e.actor].id

\* C29 witness: the ParseError response of the first frame, without id, and
\* the InvalidParams response of the second, with the Request's id 1, are on
\* the wire.
C29_Witness ==
    /\ Len(wire) = 2
    /\ wire[1].msg = ResponseError(parse_error, None) /\ wire[1].actor = 0
    /\ wire[2].msg = ResponseError(deserialize_error, Some(IdNumber(1))) /\ wire[2].actor = 2

\* C30: the keys of the pending table are compared as Ids, variant and
\* value: a Response whose id is the String "n" finds no entry, whatever
\* Number entries are pending; handle panics as for any unknown id, removes
\* nothing and resolves no waiter, and the entry of Number(n) stays pending.
C30_StringIdIsNotNumberId ==
    [][ (/\ HandlingResponse /\ pc'[0] # "dispatch"
         /\ handling[0].id # None /\ handling[0].id[1].tag = "String")
           => /\ \A e \in senders_by_id : e.id.tag = "Number" /\ e.id # handling[0].id[1]
              /\ pc'[0] = "panicked" /\ why'[0] = "Unexpected response received"
              /\ senders_by_id' = senders_by_id
              /\ oneshot' = oneshot /\ ret' = ret
      ]_vars

\* C30 witness: the Response with id String("0") has been flagged while the
\* request Number(0) is pending, its waiter still suspended on an open oneshot.
C30_Witness ==
    /\ pc[0] = "panicked" /\ why[0] = "Unexpected response received"
    /\ handling[0].id = Some(IdString("0"))
    /\ \E e \in senders_by_id :
         e.id = IdNumber(0) /\ oneshot[e.tx].st = "open" /\ pc[e.tx] = "sr_await"

(***************************************************************************)
(* middleware.rs: AggregateMiddleware.  self.middlewares holds             *)
(* NumMiddlewares middlewares, named by their position in the Vec.  A       *)
(* middleware is the host's code: its hook gets the message behind &mut    *)
(* and either leaves it as it is or writes its stamp into it.  The call of *)
(* a middleware's hook and the completion of its future are two steps: the *)
(* future may suspend in between.                                          *)
(***************************************************************************)
NumMiddlewares == 2
Middlewares == 1..NumMiddlewares

Hooks ==
    {"on_incoming_message", "on_outgoing_response", "on_outgoing_request",
     "on_outgoing_notification"}

\* What each hook may be given: any Message, a Response with the Request it
\* answers, a Request, a Notification.
IncomingMessages == {from_str(f) : f \in Frames} \ {DecodeErr}
OutgoingRequests == {RequestNew("workspace/configuration", "{}", IdNumber(k)) : k \in 0..1}
OutgoingNotifications == {NotificationNew("window/logMessage", "{}")}
AnsweredRequests == {m \in IncomingMessages : m.kind = "Request"}
OutgoingResponses(r) ==
    {ResponseResult(JsonNull, r.id[1]), ResponseError(method_not_found_error, r.id)}

HookArguments ==
    {[hook |-> "on_incoming_message", message |-> m, request |-> NoMsg] :
        m \in IncomingMessages}
    \cup {[hook |-> "on_outgoing_request", message |-> m, request |-> NoMsg] :
        m \in OutgoingRequests}
    \cup {[hook |-> "on_outgoing_notification", message |-> m, request |-> NoMsg] :
        m \in OutgoingNotifications}
    \cup UNION {{[hook |-> "on_outgoing_response", message |-> m, request |-> r] :
                    m \in OutgoingResponses(r)} : r \in AnsweredRequests}

\* The stamp of middleware i, a JSON value.
Stamp(i) == "stamp" \o ToString(i)

\* The message once middleware i has written to it: the params of a Request
\* or Notification, the result of a Response (the data of its error).
Touch(i, m) ==
    IF m.kind \in {"Request", "Notification"} THEN [m EXCEPT !.params = Stamp(i)]
    ELSE IF m.error = None THEN [m EXCEPT !.result = Some(Stamp(i))]
    ELSE [m EXCEPT !.error = Some([m.error[1] EXCEPT !.data = Some(Stamp(i))])]

\* One of the four hooks of the aggregate is called.
HookCall ==
    /\ hook = ""
    /\ \E c \in HookArguments :
          /\ hook' = c.hook
          /\ subject' = c.message
          /\ answered' = c.request
    /\ index' = 1
    /\ awaiting' = FALSE
    /\ calls' = <<>>
    /\ UNCHANGED program_vars
    /\ UNCHANGED codec_vars

\* for middleware in &self.middlewares { middleware.on_..(message, ..): the
\* hook of the middleware at index is called with the message as it is now.
MiddlewareCall ==
    /\ hook # "" /\ ~awaiting /\ index <= NumMiddlewares
    /\ awaiting' = TRUE
    /\ calls' = Append(calls, [middleware |-> index, hook |-> hook, given |-> subject,
                               request |-> answered, done |-> FALSE, left |-> NoMsg])
    /\ UNCHANGED <<hook, index, subject, answered>>
    /\ UNCHANGED program_vars
    /\ UNCHANGED codec_vars

\* Mutant: each middleware works on a clone of the message.
MiddlewareAwaitOnClone ==
    /\ awaiting
    /\ \E m \in {subject, Touch(index, subject)} :
          /\ subject' = subject
          /\ calls' = [calls EXCEPT ![Len(calls)].done = TRUE, ![Len(calls)].left = m]
    /\ awaiting' = FALSE
    /\ index' = index + 1
    /\ UNCHANGED <<hook, answered>>
    /\ UNCHANGED program_vars
    /\ UNCHANGED codec_vars

\* .await }: the middleware's future completes, having left the message or
\* written to it; the loop goes on to the next middleware.
MiddlewareAwait ==
    /\ awaiting
    /\ \E m \in {subject, Touch(index, subject)} :
          /\ subject' = m
          /\ calls' = [calls EXCEPT ![Len(calls)].done = TRUE, ![Len(calls)].left = m]
    /\ awaiting' = FALSE
    /\ index' = index + 1
    /\ UNCHANGED <<hook, answered>>
    /\ UNCHANGED program_vars
    /\ UNCHANGED codec_vars

\* The for loop is over: the hook of the aggregate returns to its caller.
HookReturn ==
    /\ hook # "" /\ ~awaiting /\ index > NumMiddlewares
    /\ hook' = ""
    /\ UNCHANGED <<index, awaiting, subject, answered, calls>>
    /\ UNCHANGED program_vars
    /\ UNCHANGED codec_vars

AggregateNext ==
    \/ HookCall
    \/ MiddlewareCall
    \/ MiddlewareAwait
    \/ HookReturn

AggregateSpec == Init /\ [][AggregateNext]_vars

\* The aggregate's hook has run to its end on the message it was given.
ChainCompleted == hook = "" /\ index > NumMiddlewares

\* C31: for each of the four hooks the aggregate calls the middlewares in
\* registration order, each once per message (the k-th call is of middleware
\* k, and all have been called when the hook returns); a middleware's hook is
\* called only when the hooks called before it have completed; and each
\* middleware is given the message as the one before it left it.
C31_ChainInOrder ==
    /\ \A k \in 1..Len(calls) :
          /\ calls[k].middleware = k
          /\ calls[k].hook = calls[1].hook
          /\ k < Len(calls) => calls[k].done
          /\ k > 1 => calls[k].given = calls[k - 1].left
    /\ Len(calls) <= NumMiddlewares
    /\ ChainCompleted =>
          /\ Len(calls) = NumMiddlewares
          /\ calls[Len(calls)].done
          /\ subject = calls[Len(calls)].left

\* Both middlewares have written to the message, on each of the four hooks'
\* kinds of message; here a Response given to on_outgoing_response.
C31_Witness ==
    /\ ChainCompleted
    /\ calls[1].hook = "on_outgoing_response"
    /\ calls[1].left # calls[1].given
    /\ calls[NumMiddlewares].given = calls[1].left
    /\ calls[NumMiddlewares].left # calls[NumMiddlewares].given

\* Task t is handling an inbound Request whose id is also the id of an
\* outbound request with an entry in the pending table.
SameIdInFlight(t) ==
    /\ Live(t) /\ handling[t].kind = "Request"
    /\ Pending(handling[t].id[1])

\* C32: the ids of inbound Requests and of outbound requests are separate
\* spaces.  While an inbound Request with id k is in flight and an outbound
\* request with the same id k is pending, a Response with id k takes out the
\* pending entry and touches nothing of the inbound Request (its task, the
\* channel and the output stay as they are); and the task of a Request whose
\* own send_request call had the Request's id and has returned sends, when
\* its handler returns, its one Response, with that id (the send fails if the
\* writer task has ended).
C32_IdSpacesIndependent ==
    /\ [][ \A t \in Tasks :
             (/\ HandlingResponse /\ pc'[0] # "dispatch"
              /\ SameIdInFlight(t) /\ handling[0].id = handling[t].id)
             => /\ ~Pending(handling[t].id[1])'
                /\ handling'[t] = handling[t]
                /\ pc'[t] = pc[t]
                /\ <<chan, wcur, wire>>' = <<chan, wcur, wire>>
                /\ \A a \in Actors :
                      oneshot'[a] # oneshot[a] => outid[a] = handling[t].id[1] ]_vars
    /\ [][ \A t \in Tasks :
             (/\ pc[t] = "handler" /\ handling[t].kind = "Request"
              /\ handling[t].id = Some(outid[t]) /\ ret[t] # None
              /\ pc'[t] \notin HandlerPcs)
             => /\ ResponsesOf(t) = {}
                /\ \/ ReceiverGone /\ pc'[t] = "panicked"
                   \/ /\ Cardinality(ResponsesOf(t)') = 1
                      /\ \A i \in ResponsesOf(t)' : Accepted'[i].msg.id = handling[t].id ]_vars

\* The task of the Request with id 0 sent an outbound request that got id 0,
\* the peer's Response with id 0 has resolved it and send_request has
\* returned the result; the handler is about to return in its turn.
C32_Witness ==
    \E t \in Tasks :
        /\ pc[t] = "handler" /\ handling[t].kind = "Request"
        /\ handling[t].id = Some(outid[t]) /\ ret[t] # None /\ ret[t][1].tag = "Ok"
        /\ ~Pending(outid[t])
        /\ ~ReceiverGone

\* Actor a is inside send_notification, its message handed to the channel.
InSendNotification(a) == pc[a] = "sn_flush"

\* The Notifications of actor a that the channel has accepted.
NotificationsOf(a) ==
    {i \in DOMAIN Accepted : Accepted[i].actor = a /\ Accepted[i].msg.kind = "Notification"}

\* C33: send_notification(method, params) puts one Notification with that
\* method and params at the end of the outbound channel and returns to the
\* handler when the writer task has taken it; neither step changes the id
\* counter, the ids handed out, the pending table or a oneshot, and neither
\* reads a frame: the return is enabled by the state of the channel alone.
\* (When the writer task has ended the send is an error and the caller panics,
\* with nothing put on the channel.)
C33_SendNotificationEffect ==
    /\ [][ \A a \in Actors :
             /\ (pc[a] = "handler" /\ pc'[a] = "sn_flush")
                => /\ Enqueues(a, NotificationNew("window/logMessage", "{}"))
                   /\ Cardinality(NotificationsOf(a)') = Cardinality(NotificationsOf(a)) + 1
                   /\ <<wcur, wire>>' = <<wcur, wire>>
                   /\ <<request_id, issued, senders_by_id, oneshot, outid>>'
                         = <<request_id, issued, senders_by_id, oneshot, outid>>
                   /\ <<nread, handling>>' = <<nread, handling>>
             /\ (InSendNotification(a) /\ ~InSendNotification(a)')
                => /\ pc'[a] = "handler"
                   /\ ReceiverGone \/ \A i \in DOMAIN chan : chan[i].actor # a
                   /\ <<chan, wcur, wire>>' = <<chan, wcur, wire>>
                   /\ <<request_id, issued, senders_by_id, oneshot, outid>>'
                         = <<request_id, issued, senders_by_id, oneshot, outid>>
                   /\ <<nread, handling>>' = <<nread, handling>> ]_vars
    /\ [](\A a \in Actors :
             (InSendNotification(a) /\ (ReceiverGone \/ \A i \in DOMAIN chan : chan[i].actor # a))
             => ENABLED Flush(a))

\* A handler's send_notification has returned with its Notification written
\* to the output, while a send_request call of another actor is pending.
C33_Witness ==
    \E a \in Actors :
        /\ pc[a] = "handler"
        /\ \E i \in DOMAIN wire :
              wire[i].actor = a /\ wire[i].msg = NotificationNew("window/logMessage", "{}")
        /\ senders_by_id # {}

\* The ids of the outbound Requests the channel has accepted.
AcceptedRequestIds == {Accepted[i].msg.id[1] : i \in RequestsOut}

\* Actor a's send_request call has had its Request accepted on the channel,
\* and no Response has been handled for it: its oneshot holds nothing yet.
SentUnanswered(a) == pc[a] \in {"sr_flush", "sr_await"} /\ oneshot[a].st = "open"

\* C34: send_request puts the entry of its id in the pending table before it
\* enqueues the Request.  In every reachable state a call whose Request has
\* been accepted on the channel and for which no Response has been handled
\* has its entry in the table; an entry leaves the table only in the step
\* that handles a Response with its id; so a Response to such a request,
\* however early it is read, is never met with "Unexpected response
\* received": it resolves the call.
C34_EntryBeforeEnqueue ==
    /\ [](\A a \in Actors :
             SentUnanswered(a) => [id |-> outid[a], tx |-> a] \in senders_by_id)
    /\ [][ /\ \A e \in senders_by_id :
                  e \notin senders_by_id'
                  => HandlingResponse /\ pc'[0] # "dispatch" /\ handling[0].id = Some(e.id)
            /\ \A a \in Actors :
                  (/\ SentUnanswered(a)
                   /\ HandlingResponse /\ pc'[0] # "dispatch" /\ handling[0].id = Some(outid[a]))
                  => /\ why'[0] # "Unexpected response received"
                     /\ oneshot'[a] = [st |-> "sent", val |-> HandleResult(handling[0])] ]_vars

\* The peer has answered an outbound Request that is on the output, and the
\* answer was taken for what it is: the caller has its result, the entry is
\* out of the table and the input loop is running.
C34_Witness ==
    \E a \in Actors :
        /\ pc[a] = "handler" /\ ret[a] # None
        /\ outid[a] \in AcceptedRequestIds /\ ~Pending(outid[a])
        /\ pc[0] # "panicked"

\* The messages of actor a that are in the channel, not yet taken.
Waiting(a) == {i \in DOMAIN chan : chan[i].actor = a}

\* C35, as claimed: at no time is more than one message accepted on the
\* channel and not yet taken by the writer task.
C35_AtMostOneAccepted == Len(chan) <= 1

\* C35, amended: a send completes only when the writer task has taken the
\* sender's message (or has ended).  Every send goes through a clone of the
\* Sender with a slot of its own, so the channel holds at most one message
\* of each producer, whose send is then suspended, and no more messages than
\* there are producers; while the writer task is blocked in a write, no
\* producer with a message in the channel can go on.
C35_OneSlotPerProducer ==
    /\ [](/\ \A a \in Actors :
                /\ Cardinality(Waiting(a)) <= 1
                /\ Waiting(a) # {} => pc[a] \in FlushPcs
                /\ (Waiting(a) # {} /\ wpc = "write") => ~ENABLED Flush(a)
          /\ Len(chan) <= Cardinality(Actors))
    /\ [][ \A a \in Actors :
             (pc[a] \in FlushPcs /\ pc'[a] # pc[a]) => (Waiting(a) = {} \/ ReceiverGone) ]_vars

\* The writer task is blocked writing one message while two producers have
\* each a message accepted on the channel and are both suspended.
C35_Witness ==
    /\ wpc = "write"
    /\ Len(chan) = 2
    /\ chan[1].actor # chan[2].actor
    /\ pc[chan[1].actor] \in FlushPcs /\ pc[chan[2].actor] \in FlushPcs

\* The input loop takes the next frame from the input.
ReadsNextFrame == nread' = nread + 1

\* C36: a Response is handled by the input loop itself.  The step that acts
\* on it spawns no task and is all of handle: when the id has an entry whose
\* waiter is there, the entry is out of the table and the waiter's oneshot
\* holds the outcome when the step is over, and the loop is back at reading
\* (or has panicked inside handle); and the loop takes the next frame only
\* when it has nothing in hand.  Hence Responses are correlated one after
\* the other, in the order in which they arrive.
C36_ResponseHandledInline ==
    [][ /\ (HandlingResponse /\ pc'[0] # "dispatch")
           => /\ \A t \in Tasks : pc'[t] = pc[t] /\ handling'[t] = handling[t]
              /\ pc'[0] \in {"read", "panicked"}
              /\ nread' = nread
              /\ \A e \in senders_by_id :
                    (handling[0].id = Some(e.id) /\ oneshot[e.tx].st = "open")
                    => /\ e \notin senders_by_id'
                       /\ oneshot'[e.tx] = [st |-> "sent", val |-> HandleResult(handling[0])]
                       /\ pc'[0] = "read"
        /\ ReadsNextFrame
           => /\ pc[0] = "read" /\ handling[0] = NoMsg
              /\ pc'[0] = "dispatch" ]_vars

\* Two Responses have been read and handled, one after the other, each for
\* a send_request call of the same handler: both ids are out of the table,
\* the second call has its result and the loop is reading again.
C36_Witness ==
    /\ nread = 3 /\ pc[0] = "read"
    /\ Len(issued) = 2 /\ senders_by_id = {}
    /\ \E t \in Tasks : pc[t] = "handler" /\ ret[t] # None /\ outid[t] = IdNumber(1)

\* The input loop is acting on a message that was decoded.
Dispatching ==
    /\ pc[0] = "dispatch" /\ handling[0].kind \in {"Request", "Notification", "Response"}
    /\ pc'[0] # "dispatch"

\* The aggregate has run the given hook to its end and left message m.
HookCompleted(h, m) ==
    /\ ChainCompleted /\ calls # <<>>
    /\ calls[1].hook = h
    /\ subject = m

\* C37: a decoded inbound message is dispatched (its task spawned, its
\* notification handler run, or handle called) only when the chain of
\* on_incoming_message hooks has completed on it, and what is dispatched is
\* the message as the hooks left it.
C37_IncomingHooksBeforeDispatch ==
    [][ Dispatching => HookCompleted("on_incoming_message", handling[0]) ]_vars

\* The outgoing hook of a message's variant.
OutgoingHook(m) ==
    CASE m.kind = "Request" -> "on_outgoing_request"
      [] m.kind = "Notification" -> "on_outgoing_notification"
      [] m.kind = "Response" -> "on_outgoing_response"

\* The writer task puts a frame on the output.
Writing == wpc = "write" /\ wire' = Append(wire, wcur[1])

\* C38: the writer task writes a message only when the outgoing hook of the
\* message's variant has completed on it (for a Response, with the Request it
\* answers), each middleware having been called once; what is written is the
\* message as the hooks left it.
C38_OutgoingHooksBeforeWrite ==
    [][ Writing =>
          /\ HookCompleted(OutgoingHook(wcur[1].msg), wcur[1].msg)
          /\ Len(calls) = NumMiddlewares
          /\ wcur[1].msg.kind = "Response" => answered.id = wcur[1].msg.id ]_vars

\* C39: no handler that is suspended in send_request holds up the input
\* loop: the loop is never itself the task that waits, inside a notification
\* handler it runs inline, for a Response that only the loop can read.
C39_InputLoopNeverWaitsOnItself == ~Suspended(0)

(***************************************************************************)
(* Methods that arrive as the other kind of message: the peer writes       *)
(* Requests and Notifications whose method is bound in one or the other of *)
(* the two handle! tables of handle_incoming.  Handlers make no client     *)
(* calls here; everything else is as in Spec.                              *)
(***************************************************************************)
KindFrames ==
    { Obj(V2, Some("initialize"), Some("{}"), Some(IdNumber(0)), None, None),
      Obj(V2, Some("initialized"), Some("{}"), Some(IdNumber(0)), None, None),
      Obj(V2, Some("exit"), Some(JsonNull), Some(IdNumber(1)), None, None),
      Obj(V2, Some("initialized"), Some("{}"), None, None, None),
      Obj(V2, Some("initialize"), Some("{}"), None, None, None),
      Obj(V2, Some("shutdown"), Some(JsonNull), None, None, None) }

ReadKind ==
    /\ pc[0] = "read" /\ nread < MaxFrames
    /\ \E f \in KindFrames : handling' = [handling EXCEPT ![0] = from_str(f)]
    /\ nread' = nread + 1
    /\ pc' = [pc EXCEPT ![0] = "dispatch"]
    /\ UNCHANGED <<why, ncalls, request_id, issued, senders_by_id, oneshot, outid, ret,
                   chan, wpc, wcur, wire>>
    /\ UNCHANGED <<codec_vars, middleware_vars>>

KindNext ==
    \/ ReadKind
    \/ ReadEnd
    \/ DispatchRequest
    \/ DispatchNotification
    \/ \E t \in Tasks : TaskStart(t)
    \/ \E t \in Tasks : RequestReturn(t)
    \/ \E a \in Actors : NotificationReturn(a)
    \/ \E a \in Actors : Flush(a)
    \/ WriterRecv
    \/ WriterWrite
    \/ WriterFail
    \/ WriterClosed

KindSpec == Init /\ [][KindNext]_vars

\* Actor a is in the handler of a method that is bound for the other kind of
\* message only.
InHandlerOfOtherKind(a) ==
    /\ pc[a] \in HandlerPcs
    /\ \/ handling[a].kind = "Request" /\ handling[a].method \in NotificationMethods
       \/ handling[a].kind = "Notification" /\ handling[a].method \in RequestMethods

\* C40: the method is looked up in the table of the message's kind.  The
\* task of a Request whose method is bound as a notification enqueues the
\* MethodNotFound Response with the Request's id (the send fails if the
\* writer task has ended) and enters no handler; the input loop, given a
\* Notification whose method is bound as a request, puts nothing on the
\* channel, enters no handler, spawns no task, and is back at reading.
C40_LookupPerKind ==
    /\ [](\A a \in Actors : ~InHandlerOfOtherKind(a))
    /\ [][ /\ \A t \in Tasks :
                 (/\ pc[t] = "start" /\ pc'[t] # "start"
                  /\ handling[t].method \in NotificationMethods)
                 => /\ NoHandlerInvoked
                    /\ \/ ReceiverGone /\ pc'[t] = "panicked" /\ chan' = chan
                       \/ Enqueues(t, ErrorResponse(MethodNotFound, "Method not found",
                                                    handling[t].id))
           /\ (/\ HandlingNotification /\ pc'[0] # "dispatch"
               /\ handling[0].method \in RequestMethods)
              => /\ NoHandlerInvoked /\ NoTaskSpawned
                 /\ pc'[0] = "read" /\ why' = why
                 /\ <<chan, wcur, wire>>' = <<chan, wcur, wire>> ]_vars

\* The Request with the method initialized has been answered on the output
\* with MethodNotFound, and the frame after it, the Notification with the
\* method initialize, has been dropped: the loop is reading again and no
\* other message was sent.
C40_Witness ==
    /\ nread = 2 /\ pc[0] = "read"
    /\ handling[1].kind = "Request" /\ handling[1].method = "initialized"
    /\ pc[1] = "done"
    /\ wire = <<[actor |-> 1, frame |-> 1, hkind |-> "Request",
                 msg |-> ErrorResponse(MethodNotFound, "Method not found", handling[1].id)]>>
    /\ pc[2] = "unspawned" /\ chan = <<>> /\ wcur = None

====
